---- MODULE Spec2Model ----
(***************************************************************************)
(* Option-chain dashboard: the ATM locator, the window selectors and the   *)
(* refresh handlers of the dashboard scripts, as state machines.           *)
(*                                                                         *)
(*   SpecWin  the pure functions (computeATM, renderChain's window,        *)
(*            centeredWindow, pickWindow) applied to enumerated inputs     *)
(*   Spec     the refresh handlers, requests in flight and the display     *)
(***************************************************************************)
EXTENDS Integers, Sequences, FiniteSets, TLC

VARIABLES
    chain,      \* SpecWin: the payload's chain[] (sequence of rows)
    spotIn,     \* SpecWin: the payload's spot (a JS value)
    stepIn,     \* SpecWin: the step handed to the window selector (a JS value)
    winIn,      \* SpecWin: the half-width (an integer)
    fullIn,     \* SpecWin: the showFull flag
    call,       \* SpecWin: which function has been applied ("none" before)
    result,     \* SpecWin: [atm, step, view] the function returned
    variant,    \* Spec: which dashboard script the page runs
    ui,         \* Spec: the page: selects, inputs, table, health line, module
                \*       state (current, lastChainData), requests in flight
    resolved,   \* Spec: the option-chain responses so far, in the order they resolved
    fmtIn,      \* SpecFmt: the payload row handed to a row template
    fmtOut      \* SpecFmt: the cells the template produced, and which template

winVars == <<chain, spotIn, stepIn, winIn, fullIn, call, result>>

uiVars == <<variant, ui, resolved>>

fmtVars == <<fmtIn, fmtOut>>

vars == <<chain, spotIn, stepIn, winIn, fullIn, call, result, variant, ui, resolved,
          fmtIn, fmtOut>>

----------------------------------------------------------------------------
(* JavaScript values.  A number is finite, NaN or an infinity; "null"      *)
(* stands for null / undefined (a field that is null or missing).          *)

Num(n) == [k |-> "fin", v |-> n]
NaN    == [k |-> "nan", v |-> 0]
PosInf == [k |-> "inf", v |-> 1]
NegInf == [k |-> "inf", v |-> -1]
NullV  == [k |-> "null", v |-> 0]

\* typeof x === "number"
IsNumber(x) == x.k \in {"fin", "nan", "inf"}

\* Number.isFinite(x)
IsFinite(x) == x.k = "fin"

\* the truthiness of a value: 0, NaN, null and undefined are falsy
Truthy(x) == x.k = "inf" \/ (x.k = "fin" /\ x.v # 0)

\* Number(x) of a number or null-ish default; field(data, "spot", NaN) maps
\* null and missing to NaN before Number() is applied
NumberOfSpotField(x) == IF x.k = "null" THEN NaN ELSE x

Sign(n) == IF n > 0 THEN 1 ELSE IF n < 0 THEN -1 ELSE 0

AbsInt(n) == IF n < 0 THEN -n ELSE n

\* -a
JsNeg(a) == IF a.k = "nan" THEN NaN ELSE [k |-> a.k, v |-> -a.v]

\* a + b on numbers
JsAdd(a, b) ==
    IF a.k = "nan" \/ b.k = "nan" THEN NaN
    ELSE IF a.k = "inf" /\ b.k = "inf" THEN (IF a.v = b.v THEN a ELSE NaN)
    ELSE IF a.k = "inf" THEN a
    ELSE IF b.k = "inf" THEN b
    ELSE Num(a.v + b.v)

\* a - b on numbers
JsSub(a, b) == JsAdd(a, JsNeg(b))

\* a * b on numbers
JsMul(a, b) ==
    IF a.k = "nan" \/ b.k = "nan" THEN NaN
    ELSE IF a.k = "fin" /\ b.k = "fin" THEN Num(a.v * b.v)
    ELSE IF Sign(a.v) * Sign(b.v) = 0 THEN NaN
    ELSE [k |-> "inf", v |-> Sign(a.v) * Sign(b.v)]

\* Math.abs(a)
JsAbs(a) ==
    IF a.k = "nan" THEN NaN
    ELSE IF a.k = "inf" THEN PosInf
    ELSE Num(AbsInt(a.v))

\* a < b : false as soon as one side is NaN
JsLt(a, b) ==
    IF a.k = "nan" \/ b.k = "nan" THEN FALSE
    ELSE IF a.k = "fin" /\ b.k = "fin" THEN a.v < b.v
    ELSE IF a.k = "inf" /\ b.k = "inf" THEN a.v < b.v
    ELSE IF a.k = "inf" THEN a.v < 0
    ELSE b.v > 0

\* a <= b
JsLe(a, b) ==
    IF a.k = "nan" \/ b.k = "nan" THEN FALSE
    ELSE a = b \/ JsLt(a, b)

\* a >= b
JsGe(a, b) == JsLe(b, a)

----------------------------------------------------------------------------
(* The ATM locators.                                                       *)

RECURSIVE computeATMLoop(_, _, _, _, _)
\* the for loop of computeATM: i runs over the 2nd..last strike
computeATMLoop(strikes, spot, i, best, bestDiff) ==
    IF i > Len(strikes) THEN best
    ELSE LET d == JsAbs(JsSub(Num(strikes[i]), spot))
         IN  IF JsLt(d, bestDiff)
             THEN computeATMLoop(strikes, spot, i + 1, strikes[i], d)
             ELSE computeATMLoop(strikes, spot, i + 1, best, bestDiff)

\* computeATM with a guard that also rejects NaN and the infinities
computeATM_finiteGuard(strikes, spot) ==
    IF Len(strikes) = 0 \/ ~IsFinite(spot) THEN NullV
    ELSE Num(computeATMLoop(strikes, spot, 2, strikes[1],
                            JsAbs(JsSub(Num(strikes[1]), spot))))

RECURSIVE computeATMLoopLe(_, _, _, _, _)
\* the loop with <= in place of <
computeATMLoopLe(strikes, spot, i, best, bestDiff) ==
    IF i > Len(strikes) THEN best
    ELSE LET d == JsAbs(JsSub(Num(strikes[i]), spot))
         IN  IF JsLe(d, bestDiff)
             THEN computeATMLoopLe(strikes, spot, i + 1, strikes[i], d)
             ELSE computeATMLoopLe(strikes, spot, i + 1, best, bestDiff)

\* computeATM whose comparison is <= : the last of several nearest strikes wins
computeATM_lastTie(strikes, spot) ==
    IF Len(strikes) = 0 \/ ~IsNumber(spot) THEN NullV
    ELSE Num(computeATMLoopLe(strikes, spot, 2, strikes[1],
                              JsAbs(JsSub(Num(strikes[1]), spot))))

\* computeATM that returns the smallest distance instead of the strike
computeATM_returnsDiff(strikes, spot) ==
    IF Len(strikes) = 0 \/ ~IsNumber(spot) THEN NullV
    ELSE LET best == computeATMLoop(strikes, spot, 2, strikes[1],
                                    JsAbs(JsSub(Num(strikes[1]), spot)))
         IN  IF IsFinite(spot) THEN JsAbs(JsSub(Num(best), spot)) ELSE Num(best)

\* computeATM(strikes, spot): null for an empty list or a spot that is not of
\* type number, else the strike the loop ends with
computeATM(strikes, spot) ==
    IF Len(strikes) = 0 \/ ~IsNumber(spot) THEN NullV
    ELSE Num(computeATMLoop(strikes, spot, 2, strikes[1],
                            JsAbs(JsSub(Num(strikes[1]), spot))))

RECURSIVE centeredWindowLoop(_, _, _, _, _)
\* the for loop of centeredWindow (loop form): i runs over the 2nd..last strike
centeredWindowLoop(strikes, spot, i, atm, best) ==
    IF i > Len(strikes) THEN atm
    ELSE LET diff == JsAbs(JsSub(Num(strikes[i]), spot))
         IN  IF JsLt(diff, best)
             THEN centeredWindowLoop(strikes, spot, i + 1, strikes[i], diff)
             ELSE centeredWindowLoop(strikes, spot, i + 1, atm, best)

\* the ATM of centeredWindow, loop form: let atm = strikes[0] ... for (i = 1 ...)
centeredWindowATM(strikes, spot) ==
    centeredWindowLoop(strikes, spot, 2, strikes[1],
                       JsAbs(JsSub(Num(strikes[1]), spot)))

RECURSIVE reduceATM(_, _, _, _)
\* strikes.reduce((a,b) => Math.abs(b-spot) < Math.abs(a-spot) ? b : a, strikes[0]):
\* the callback runs on every element, the first included
reduceATM(strikes, spot, i, a) ==
    IF i > Len(strikes) THEN a
    ELSE LET b == strikes[i]
         IN  IF JsLt(JsAbs(JsSub(Num(b), spot)), JsAbs(JsSub(Num(a), spot)))
             THEN reduceATM(strikes, spot, i + 1, b)
             ELSE reduceATM(strikes, spot, i + 1, a)

\* the ATM of centeredWindow, reduce form
centeredWindowReduceATM(strikes, spot) == reduceATM(strikes, spot, 1, strikes[1])

RECURSIVE forOfATM(_, _, _, _)
\* let atm = strikes[0]; for (const s of strikes) if (|s - spot| < |atm - spot|) atm = s
forOfATM(strikes, spot, i, atm) ==
    IF i > Len(strikes) THEN atm
    ELSE LET s == strikes[i]
         IN  IF JsLt(JsAbs(JsSub(Num(s), spot)), JsAbs(JsSub(Num(atm), spot)))
             THEN forOfATM(strikes, spot, i + 1, s)
             ELSE forOfATM(strikes, spot, i + 1, atm)

\* the ATM of centeredWindow, for-of form
centeredWindowForOfATM(strikes, spot) == forOfATM(strikes, spot, 1, strikes[1])

----------------------------------------------------------------------------
(* The window selectors.  Each returns [atm, step, view]: the ATM it       *)
(* located (null when it located none), the step it used for the bounds    *)
(* and the rows it keeps.                                                  *)

\* rows.map(r => r.strike)
StrikesOf(rows) == [i \in 1..Len(rows) |-> rows[i].strike]

\* the filter with both bounds exclusive
FilterRowsStrict(rows, lo, hi) ==
    LET Keep(r) == JsLt(lo, Num(r.strike)) /\ JsLt(Num(r.strike), hi)
    IN  SelectSeq(rows, Keep)

\* rows.filter(r => r.strike >= lo && r.strike <= hi)
FilterRows(rows, lo, hi) ==
    LET Keep(r) == JsGe(Num(r.strike), lo) /\ JsLe(Num(r.strike), hi)
    IN  SelectSeq(rows, Keep)

\* the step renderChain falls back to: Number(stepGuess || 50)
RenderDefaultStep == 50

\* the step loadChain falls back to: current.step || 100
LoadChainDefaultStep == 100

\* renderChain's windowing with exclusive bounds
renderChainWindow_strict(spotField, rows, showAll, win, stepGuess) ==
    LET spot == NumberOfSpotField(spotField)
        atm  == computeATM(StrikesOf(rows), spot)
        step == IF Truthy(stepGuess) THEN stepGuess ELSE Num(RenderDefaultStep)
        lo   == JsSub(atm, JsMul(win, step))
        hi   == JsAdd(atm, JsMul(win, step))
    IN  [atm  |-> atm,
         step |-> step,
         view |-> IF ~showAll /\ atm # NullV /\ IsFinite(step)
                  THEN FilterRowsStrict(rows, lo, hi)
                  ELSE rows]

\* renderChain(data, showAll, win, stepGuess), up to the view it renders
renderChainWindow(spotField, rows, showAll, win, stepGuess) ==
    LET spot == NumberOfSpotField(spotField)
        atm  == computeATM(StrikesOf(rows), spot)
        step == IF Truthy(stepGuess) THEN stepGuess ELSE Num(RenderDefaultStep)
        lo   == JsSub(atm, JsMul(win, step))
        hi   == JsAdd(atm, JsMul(win, step))
    IN  [atm  |-> atm,
         step |-> step,
         view |-> IF ~showAll /\ atm # NullV /\ IsFinite(step)
                  THEN FilterRows(rows, lo, hi)
                  ELSE rows]

\* centeredWindow(rows, spot, step, win), loop form
centeredWindow(rows, spot, step, win) ==
    IF Len(rows) = 0 \/ ~IsFinite(spot) \/ ~Truthy(step)
    THEN [atm |-> NullV, step |-> step, view |-> rows]
    ELSE LET atm == Num(centeredWindowATM(StrikesOf(rows), spot))
             lo  == JsSub(atm, JsMul(win, step))
             hi  == JsAdd(atm, JsMul(win, step))
         IN  [atm |-> atm, step |-> step, view |-> FilterRows(rows, lo, hi)]

\* centeredWindow(chain, spot, step, win), reduce form
centeredWindowReduce(rows, spot, step, win) ==
    IF Len(rows) = 0 \/ ~Truthy(spot) \/ ~Truthy(step)
    THEN [atm |-> NullV, step |-> step, view |-> rows]
    ELSE LET atm == Num(centeredWindowReduceATM(StrikesOf(rows), spot))
             lo  == JsSub(atm, JsMul(win, step))
             hi  == JsAdd(atm, JsMul(win, step))
         IN  [atm |-> atm, step |-> step, view |-> FilterRows(rows, lo, hi)]

\* centeredWindow(chain, spot, step, win), for-of form
centeredWindowForOf(rows, spot, step, win) ==
    IF Len(rows) = 0 \/ ~Truthy(spot) \/ ~Truthy(step)
    THEN [atm |-> NullV, step |-> step, view |-> rows]
    ELSE LET atm == Num(centeredWindowForOfATM(StrikesOf(rows), spot))
             lo  == JsSub(atm, JsMul(win, step))
             hi  == JsAdd(atm, JsMul(win, step))
         IN  [atm |-> atm, step |-> step, view |-> FilterRows(rows, lo, hi)]

\* the rows loadChain renders (loop-form script):
\* chkFull.checked ? chain : centeredWindow(chain, j.spot, current.step || 100, win)
loadChainRows(spotField, rows, full, win, curStep) ==
    LET step == IF Truthy(curStep) THEN curStep ELSE Num(LoadChainDefaultStep)
    IN  IF full THEN [atm |-> NullV, step |-> step, view |-> rows]
        ELSE centeredWindow(rows, spotField, step, win)

\* the rows loadChain renders (reduce-form script): spot = data?.spot || null
loadChainRowsReduce(spotField, rows, full, win, curStep) ==
    LET step == IF Truthy(curStep) THEN curStep ELSE Num(LoadChainDefaultStep)
        spot == IF Truthy(spotField) THEN spotField ELSE NullV
    IN  IF full THEN [atm |-> NullV, step |-> step, view |-> rows]
        ELSE centeredWindowReduce(rows, spot, step, win)

\* the rows loadChain renders (for-of-form script): spot = data?.spot ?? null
loadChainRowsForOf(spotField, rows, full, win, curStep) ==
    LET step == IF Truthy(curStep) THEN curStep ELSE Num(LoadChainDefaultStep)
    IN  IF full THEN [atm |-> NullV, step |-> step, view |-> rows]
        ELSE centeredWindowForOf(rows, spotField, step, win)

\* Math.round(p / q) for finite p and finite q # 0: floor(p/q + 1/2)
RoundDiv(p, q) ==
    IF q > 0 THEN (2 * p + q) \div (2 * q)
    ELSE (2 * (-p) + (-q)) \div (2 * (-q))

\* Math.round(spot / step) * step for truthy numbers spot and step: an
\* infinite spot over a finite step is the infinity of sign
\* sign(spot) * sign(step), which Math.round keeps and * step multiplies by
\* sign(step) again
RoundToStep(spot, step) ==
    IF spot.k = "fin" /\ step.k = "fin"
    THEN Num(RoundDiv(spot.v, step.v) * step.v)
    ELSE IF spot.k = "inf" /\ step.k = "fin"
    THEN JsMul(JsMul(spot, Num(Sign(step.v))), step)
    ELSE NaN

\* pickWindow without the early return on full
pickWindow_noFull(rows, spot, step, win, full) ==
    IF ~Truthy(spot) \/ ~Truthy(step)
    THEN [atm |-> NullV, step |-> step, view |-> rows]
    ELSE LET center == RoundToStep(spot, step)
             lo == JsSub(center, JsMul(win, step))
             hi == JsAdd(center, JsMul(win, step))
         IN  [atm |-> center, step |-> step, view |-> FilterRows(rows, lo, hi)]

\* pickWindow(rows, spot, step, win, full)
pickWindow(rows, spot, step, win, full) ==
    IF full THEN [atm |-> NullV, step |-> step, view |-> rows]
    ELSE IF ~Truthy(spot) \/ ~Truthy(step)
    THEN [atm |-> NullV, step |-> step, view |-> rows]
    ELSE LET center == RoundToStep(spot, step)
             lo == JsSub(center, JsMul(win, step))
             hi == JsAdd(center, JsMul(win, step))
         IN  [atm |-> center, step |-> step, view |-> FilterRows(rows, lo, hi)]

----------------------------------------------------------------------------
(* The cell formatters.  A field of a row is null/undefined, NaN, or the   *)
(* finite number v/den.  A cell is the em-dash, the text "NaN", or a       *)
(* decimal numeral: sign, integer part, dec fraction digits (frac is the   *)
(* fraction as an integer of dec digits), grouping style and suffix.       *)

Frac(v, den) == [k |-> "fin", v |-> v, den |-> den]
FNull == [k |-> "null", v |-> 0, den |-> 1]
FNaN == [k |-> "nan", v |-> 0, den |-> 1]

RECURSIVE Pow10(_)
Pow10(d) == IF d = 0 THEN 1 ELSE 10 * Pow10(d - 1)

\* the cell "—"
Dash == [kind |-> "dash", neg |-> FALSE, int |-> 0, frac |-> 0, dec |-> 0,
         suffix |-> ""]

\* the cell "NaN" (with the suffix the formatter appends, if any)
TextNaN(suffix) == [kind |-> "NaN", neg |-> FALSE, int |-> 0, frac |-> 0,
                    dec |-> 0, suffix |-> suffix]

\* a / b rounded to the nearest integer, halves up, for a >= 0 and b > 0
RoundHalfUp(a, b) == (2 * a + b) \div (2 * b)

RECURSIVE Gcd(_, _)
Gcd(a, b) == IF b = 0 THEN a ELSE Gcd(b, a % b)

\* floor(log2(n)) and ceil(log2(n)) for n >= 1
RECURSIVE Log2Floor(_)
Log2Floor(n) == IF n < 2 THEN 0 ELSE 1 + Log2Floor(n \div 2)

RECURSIVE Log2Ceil(_)
Log2Ceil(n) == IF n <= 1 THEN 0 ELSE 1 + Log2Ceil((n + 1) \div 2)

\* floor(log2(p / q)) for p > 0 and q > 0: the exponent of the double p/q
BinaryExponent(p, q) ==
    IF p >= q THEN Log2Floor(p \div q) ELSE -Log2Ceil((q + p - 1) \div p)

\* (r * 2^e) % m
RECURSIVE DoubleMod(_, _, _)
DoubleMod(r, m, e) == IF e = 0 THEN r ELSE DoubleMod((2 * r) % m, m, e - 1)

\* the sign of double(p/q) - p/q for p >= 0 and q > 0: a Number holds p/q
\* rounded to 53 significant bits, ties to even; 0 when p/q is a double
DoubleError(p, q) ==
    IF p = 0 THEN 0
    ELSE LET g   == Gcd(p, q)
             pp  == p \div g
             qq  == q \div g
             r   == DoubleMod(pp % (2 * qq), 2 * qq, 52 - BinaryExponent(pp, qq))
             rem == r % qq
             odd == r >= qq
         IN  IF rem = 0 THEN 0
             ELSE IF 2 * rem < qq THEN -1
             ELSE IF 2 * rem > qq THEN 1
             ELSE IF odd THEN 1 ELSE -1

\* the numeral of |v|/den with exactly d fraction digits.  toFixed (kind
\* "fixed") rounds the double: "let n be an integer for which
\* n / 10^d - x is as close to zero as possible; if there are two such n,
\* pick the larger", so a decimal tie goes down when the double lies below
\* v/den and up otherwise.  The locale kinds round the decimal form, halves
\* away from zero.
Numeral(kind, v, den, d, suffix) ==
    LET a   == AbsInt(v)
        ip  == a \div den
        num == (a % den) * Pow10(d)
        f   == IF kind = "fixed" /\ 2 * (num % den) = den
               THEN IF DoubleError(a, den) < 0 THEN num \div den
                    ELSE (num \div den) + 1
               ELSE RoundHalfUp(num, den)
        carry == f = Pow10(d)
    IN  [kind |-> kind, neg |-> v < 0,
         int |-> IF carry THEN ip + 1 ELSE ip,
         frac |-> IF carry THEN 0 ELSE f,
         dec |-> d, suffix |-> suffix]

\* Number(n).toFixed(d): Number(null) is 0, NaN gives "NaN"
toFixed(x, d) ==
    IF x.k = "nan" THEN TextNaN("")
    ELSE Numeral("fixed", x.v, x.den, d, "")

\* trailing zeros of the fraction are dropped (minimumFractionDigits 0)
RECURSIVE StripZeros(_)
StripZeros(c) ==
    IF c.dec > 0 /\ c.frac % 10 = 0
    THEN StripZeros([c EXCEPT !.frac = @ \div 10, !.dec = @ - 1])
    ELSE c

\* the default of Number.prototype.toLocaleString: at most 3 fraction digits
LocaleMaxFraction == 3

\* Number(n).toLocaleString(locale, {maximumFractionDigits: maxd}): grouped
\* digits, at most maxd fraction digits
toLocaleString(x, locale, maxd) ==
    IF x.k = "nan" THEN [TextNaN("") EXCEPT !.kind = "NaN"]
    ELSE StripZeros(Numeral(locale, x.v, x.den, maxd, ""))

\* fmtNum's thresholds: 1e7 (Cr), 1e5 (L), 1e3 (K)
Crore == 10000000
Lakh == 100000
Thousand == 1000

\* (n / unit).toFixed(2) + suffix
Scaled(x, unit, suffix) == Numeral("fixed", x.v, x.den * unit, 2, suffix)

\* Math.abs(n) >= unit for the finite number n
AbsAtLeast(x, unit) == AbsInt(x.v) \div x.den >= unit

\* fmtNum with the K and L thresholds exchanged
fmtNum_swapped(n) ==
    IF n.k # "fin" THEN Dash
    ELSE IF AbsAtLeast(n, Crore) THEN Scaled(n, Crore, " Cr")
    ELSE IF AbsAtLeast(n, Thousand) THEN Scaled(n, Lakh, " L")
    ELSE toLocaleString(n, "en-IN", LocaleMaxFraction)

\* fmtNum (public/Js/dashboard.js, dashboard.html)
fmtNum(n) ==
    IF n.k # "fin" THEN Dash
    ELSE IF AbsAtLeast(n, Crore) THEN Scaled(n, Crore, " Cr")
    ELSE IF AbsAtLeast(n, Lakh) THEN Scaled(n, Lakh, " L")
    ELSE IF AbsAtLeast(n, Thousand) THEN Scaled(n, Thousand, " K")
    ELSE toLocaleString(n, "en-IN", LocaleMaxFraction)

\* fmt2 (public/Js/dashboard.js, dashboard.html)
fmt2(n) == IF n.k # "fin" THEN Dash ELSE toFixed(n, 2)

\* fmt that ignores its digits argument
fmt_twoDigits(n, d) == IF n.k # "fin" THEN Dash ELSE toFixed(n, 2)

\* fmt and fint of public/js/dashboard.js, first script (Number.isNaN(n));
\* fmt and int of part_002, part_003, part_005, part_006 agree with them on
\* null, NaN and numbers
fmt(n, d) == IF n.k # "fin" THEN Dash ELSE toFixed(n, d)
fint(n) == IF n.k # "fin" THEN Dash ELSE toLocaleString(n, "en-IN", LocaleMaxFraction)

\* fmt.num and fmt.int of public/js/dashboard.js, second script: only null
\* and undefined give the em-dash
fmt_num(n, d) == IF n.k = "null" THEN Dash ELSE toFixed(n, d)
fmt_int(n) == IF n.k = "null" THEN Dash ELSE toLocaleString(n, "en-IN", LocaleMaxFraction)

\* fmt and fmt0 of public/js/dashboard.js, third script: isNaN(n)
fmt3(n, d) == IF n.k # "fin" THEN Dash ELSE toFixed(n, d)
fmt0(n) == fmt3(n, 0)

\* fmt of part_000: the locale of the browser, at most digits fraction digits
fmtLocale(n, digits) ==
    IF n.k = "null" THEN Dash ELSE toLocaleString(n, "default", digits)

\* a side (call or put) of a payload row, and a row
Side(price, iv, delta, gamma, theta, vega, oi, chgOi) ==
    [price |-> price, iv |-> iv, delta |-> delta, gamma |-> gamma,
     theta |-> theta, vega |-> vega, oi |-> oi, chgOi |-> chgOi]

\* renderChain's row template (public/Js/dashboard.js, dashboard.html)
Js_sideCells(s) ==
    [price |-> fmt2(s.price), iv |-> fmt2(s.iv),
     oi |-> fmtNum(s.oi), chgOi |-> fmtNum(s.chgOi)]
Js_rowCells(r) ==
    [call |-> Js_sideCells(r.call), put |-> Js_sideCells(r.put),
     strike |-> fmtNum(r.strike)]

\* renderRows' row template (public/js/dashboard.js, first script): sixteen
\* cells, eight for the call side and seven for the put side, which has no
\* cell for put.theta
js_callCells(s) ==
    [price |-> fmt(s.price, 2), iv |-> fmt(s.iv, 2), delta |-> fmt(s.delta, 4),
     gamma |-> fmt(s.gamma, 6), theta |-> fmt(s.theta, 2), vega |-> fmt(s.vega, 2),
     oi |-> fint(s.oi), chgOi |-> fint(s.chgOi)]
js_putCells(s) ==
    [price |-> fmt(s.price, 2), iv |-> fmt(s.iv, 2), delta |-> fmt(s.delta, 4),
     gamma |-> fmt(s.gamma, 6), vega |-> fmt(s.vega, 2),
     oi |-> fint(s.oi), chgOi |-> fint(s.chgOi)]
js_rowCells(r) ==
    [call |-> js_callCells(r.call), put |-> js_putCells(r.put),
     strike |-> fint(r.strike)]

\* rowHTML (public/js/dashboard.js, second script)
js2_sideCells(s) ==
    [price |-> fmt_num(s.price, 2), iv |-> fmt_num(s.iv, 2),
     delta |-> fmt_num(s.delta, 4), gamma |-> fmt_num(s.gamma, 6),
     theta |-> fmt_num(s.theta, 2), vega |-> fmt_num(s.vega, 2),
     oi |-> fmt_int(s.oi), chgOi |-> fmt_int(s.chgOi)]
js2_rowHTML(r) ==
    [call |-> js2_sideCells(r.call), put |-> js2_sideCells(r.put),
     strike |-> fmt_int(r.strike)]

\* the cells of refreshChain (public/js/dashboard.js, third script)
js3_sideCells(s) ==
    [price |-> fmt3(s.price, 2), iv |-> fmt3(s.iv, 2), delta |-> fmt3(s.delta, 2),
     gamma |-> fmt3(s.gamma, 4), theta |-> fmt3(s.theta, 2), vega |-> fmt3(s.vega, 2),
     oi |-> fmt0(s.oi), chgOi |-> fmt0(s.chgOi)]
js3_rowCells(r) ==
    [call |-> js3_sideCells(r.call), put |-> js3_sideCells(r.put),
     strike |-> fmt0(r.strike)]

\* rowHTML of part_000: dCe = ce.chgOi || 0
p000_sideCells(s) ==
    [price |-> fmtLocale(s.price, 2), iv |-> fmtLocale(s.iv, 2),
     oi |-> fmtLocale(s.oi, 0),
     chgOi |-> fmtLocale(IF s.chgOi.k = "fin" /\ s.chgOi.v # 0 THEN s.chgOi
                         ELSE Frac(0, 1), 0)]
p000_rowHTML(r) ==
    [call |-> p000_sideCells(r.call), put |-> p000_sideCells(r.put),
     strike |-> fmtLocale(r.strike, 0)]

----------------------------------------------------------------------------
(* SpecFmt: the row templates applied to enumerated rows.                  *)

\* prices, iv and greeks of a payload: null, NaN, 0, 12.34, 123.456, -0.25
\* and 1.005, a decimal tie at two digits whose double lies below it
PriceValues ==
    {FNull, FNaN, Frac(0, 1), Frac(12340, 1000), Frac(123456, 1000),
     Frac(-250, 1000), Frac(1005, 1000)}

\* oi and chgOi of a payload: null, NaN, integers around fmtNum's thresholds
\* and 1005, whose thousandth part 1.005 is a tie at two digits
OiValues ==
    {FNull, FNaN, Frac(0, 1), Frac(999, 1), Frac(1000, 1), Frac(1005, 1),
     Frac(99999, 1), Frac(100000, 1), Frac(9999999, 1), Frac(10000000, 1), Frac(-7, 1),
     Frac(-1500, 1), Frac(-250000, 1), Frac(-20000000, 1)}

StrikeValues == {Frac(24800, 1), Frac(500, 1)}

\* the rows enumerated: the put side carries the call side's values crosswise
FmtRows ==
    {[call |-> Side(p, g, g, p, p, g, o, c),
      put  |-> Side(g, p, p, g, g, p, c, o),
      strike |-> s] :
        p \in PriceValues, g \in PriceValues, o \in OiValues, c \in OiValues,
        s \in StrikeValues}

NoRow == [call |-> Side(FNull, FNull, FNull, FNull, FNull, FNull, FNull, FNull),
          put  |-> Side(FNull, FNull, FNull, FNull, FNull, FNull, FNull, FNull),
          strike |-> FNull]

NoCells == [by |-> "none"]

----------------------------------------------------------------------------
(* SpecWin: the functions applied to enumerated payloads and settings.     *)

\* longest chain enumerated in arbitrary (unsorted, repeating) order
MaxLen == 3

\* largest half-width enumerated
MaxWin == 2

Strikes == {24700, 24750, 24800, 24850, 24900}

SeqStrikes == {24750, 24800, 24850}

Row(s) == [strike |-> s]

\* the ascending chain over a set of strikes
RECURSIVE AscendingChain(_)
AscendingChain(S) ==
    IF S = {} THEN <<>>
    ELSE LET m == CHOOSE x \in S : \A y \in S : x <= y
         IN  <<Row(m)>> \o AscendingChain(S \ {m})

\* every ascending chain over Strikes, and every chain of at most MaxLen rows
\* over SeqStrikes in any order
Chains ==
    {AscendingChain(S) : S \in SUBSET Strikes}
    \cup UNION {[1..n -> {Row(s) : s \in SeqStrikes}] : n \in 0..MaxLen}

\* spot of the payload: finite, null or missing, NaN, infinite
SpotFields ==
    {Num(24690), Num(24725), Num(24800), Num(24810), Num(24875), Num(25000), Num(0),
     NullV, NaN, PosInf}

\* the step the caller supplies (data-step of the option, current.step)
StepValues == {Num(50), Num(100), Num(0), Num(-50), NaN, PosInf, NullV}

Wins == (-1)..MaxWin

NoResult == [atm |-> NullV, step |-> NullV, view |-> <<>>]

InitWin ==
    /\ chain \in Chains
    /\ spotIn \in SpotFields
    /\ stepIn \in StepValues
    /\ winIn \in Wins
    /\ fullIn \in BOOLEAN
    /\ call = "none"
    /\ result = NoResult
    /\ variant = "none"
    /\ ui = [initPc |-> "off"]
    /\ resolved = <<>>
    /\ fmtIn = NoRow /\ fmtOut = NoCells

\* renderChain's first lines: spot = Number(field(data, "spot", NaN)),
\* strikes = rows.map(...), atm = computeATM(strikes, spot)
ApplyComputeATM ==
    /\ call = "none"
    /\ call' = "computeATM"
    /\ result' = [atm  |-> computeATM(StrikesOf(chain), NumberOfSpotField(spotIn)),
                  step |-> NullV,
                  view |-> <<>>]
    /\ UNCHANGED <<chain, spotIn, stepIn, winIn, fullIn, variant, ui, resolved, fmtVars>>

\* renderChain(j, els.showFull.checked, win, step)
ApplyRenderChain ==
    /\ call = "none"
    /\ call' = "renderChain"
    /\ result' = renderChainWindow(spotIn, chain, fullIn, Num(winIn), stepIn)
    /\ UNCHANGED <<chain, spotIn, stepIn, winIn, fullIn, variant, ui, resolved, fmtVars>>

\* loadChain of the loop-form script; current.strikes_window is at least 1 there
ApplyLoadChain ==
    /\ call = "none"
    /\ winIn >= 1
    /\ stepIn # NullV
    /\ call' = "loadChain"
    /\ result' = loadChainRows(spotIn, chain, fullIn, Num(winIn), stepIn)
    /\ UNCHANGED <<chain, spotIn, stepIn, winIn, fullIn, variant, ui, resolved, fmtVars>>

\* loadChain of the reduce-form script
ApplyLoadChainReduce ==
    /\ call = "none"
    /\ winIn >= 1
    /\ stepIn # NullV
    /\ call' = "loadChainReduce"
    /\ result' = loadChainRowsReduce(spotIn, chain, fullIn, Num(winIn), stepIn)
    /\ UNCHANGED <<chain, spotIn, stepIn, winIn, fullIn, variant, ui, resolved, fmtVars>>

\* loadChain of the for-of-form script
ApplyLoadChainForOf ==
    /\ call = "none"
    /\ winIn >= 1
    /\ stepIn # NullV
    /\ call' = "loadChainForOf"
    /\ result' = loadChainRowsForOf(spotIn, chain, fullIn, Num(winIn), stepIn)
    /\ UNCHANGED <<chain, spotIn, stepIn, winIn, fullIn, variant, ui, resolved, fmtVars>>

\* pickWindow(j.data || [], j.spot, Number(step), Number(inpWindow.value || 15), full)
ApplyPickWindow ==
    /\ call = "none"
    /\ stepIn # NullV
    /\ call' = "pickWindow"
    /\ result' = pickWindow(chain, spotIn, stepIn, Num(winIn), fullIn)
    /\ UNCHANGED <<chain, spotIn, stepIn, winIn, fullIn, variant, ui, resolved, fmtVars>>

NextWin ==
    \/ ApplyComputeATM
    \/ ApplyRenderChain
    \/ ApplyLoadChain
    \/ ApplyLoadChainReduce
    \/ ApplyLoadChainForOf
    \/ ApplyPickWindow

SpecWin == InitWin /\ [][NextWin]_vars

----------------------------------------------------------------------------
(* Properties of the ATM locator and the window selectors (SpecWin).       *)

\* the calls that locate an ATM with computeATM
ComputeATMCalls == {"computeATM", "renderChain"}

\* the calls that select a window with an ATM locator inside
CenteredCalls == {"renderChain", "loadChain", "loadChainReduce", "loadChainForOf"}

\* the strike s occurs in the chain
InChain(s) == \E i \in 1..Len(chain) : chain[i].strike = s

\* a is, among the strikes nearest to the finite spot p, the first of the list
NearestFirst(a, strikes, p) ==
    \E i \in 1..Len(strikes) :
        /\ strikes[i] = a
        /\ \A j \in 1..Len(strikes) : AbsInt(strikes[j] - p) >= AbsInt(a - p)
        /\ \A j \in 1..(i - 1) : AbsInt(strikes[j] - p) > AbsInt(a - p)

\* C1: for every non-empty strike list and every spot of the payload,
\* computeATM returns an element of that list.
C1_ATMIsElement ==
    (call \in ComputeATMCalls /\ Len(chain) > 0)
        => (result.atm.k = "fin" /\ InChain(result.atm.v))

\* C1 witness: computeATM has run on a three-row chain whose payload has no spot
C1_Witness ==
    /\ call = "computeATM"
    /\ Len(chain) = 3
    /\ spotIn = NullV
    /\ result.atm = Num(chain[1].strike)

\* C2: for a non-empty strike list and a finite spot, every form of the ATM
\* locator (computeATM, the loop, reduce and for-of forms of centeredWindow)
\* returns a strike at minimal distance from spot, the first such in the list.
C2_NearestFirstTie ==
    /\ (call = "computeATM" /\ Len(chain) > 0 /\ IsFinite(spotIn))
          => (result.atm.k = "fin"
              /\ NearestFirst(result.atm.v, StrikesOf(chain), spotIn.v))
    /\ (call = "loadChain" /\ ~fullIn /\ Len(chain) > 0 /\ IsFinite(spotIn))
          => (result.atm.k = "fin"
              /\ NearestFirst(result.atm.v, StrikesOf(chain), spotIn.v))
    /\ (call \in {"loadChainReduce", "loadChainForOf"} /\ ~fullIn
            /\ Len(chain) > 0 /\ IsFinite(spotIn) /\ spotIn.v # 0)
          => (result.atm.k = "fin"
              /\ NearestFirst(result.atm.v, StrikesOf(chain), spotIn.v))

\* C2 witness: two strikes equally near the spot, the higher one first in the
\* list; the reduce form has returned the first
C2_Witness ==
    /\ call = "loadChainReduce"
    /\ ~fullIn
    /\ chain = <<Row(24850), Row(24750)>>
    /\ spotIn = Num(24800)
    /\ result.atm = Num(24850)

\* C3 (as claimed): the ATM locator returns null whenever the strike list is
\* empty or the payload's spot is not a finite number, and renderChain then
\* applies no window.
C3_NullOnUnusableSpot ==
    (call \in ComputeATMCalls /\ (Len(chain) = 0 \/ ~IsFinite(spotIn)))
        => (result.atm = NullV /\ (call = "renderChain" => result.view = chain))

\* C4: with showFull true every window selector returns exactly the input
\* chain: same rows, same order.
C4_ShowFullIdentity ==
    (call \in CenteredCalls \cup {"pickWindow"} /\ fullIn) => result.view = chain

\* C4 witness: pickWindow with full set on a five-row chain, where a window of
\* half-width 0 would keep a single row
C4_Witness ==
    /\ call = "pickWindow"
    /\ fullIn
    /\ chain = AscendingChain(Strikes)
    /\ spotIn = Num(24810)
    /\ stepIn = Num(50)
    /\ winIn = 0
    /\ result.view = chain

\* C5: with showFull false, a non-null ATM and a finite step, the window
\* selector returns exactly the rows with atm - w*step <= strike <= atm + w*step,
\* in input order.
C5_WindowExact ==
    (call \in CenteredCalls /\ ~fullIn /\ result.atm # NullV /\ IsFinite(result.step))
        => LET lo == result.atm.v - winIn * result.step.v
               hi == result.atm.v + winIn * result.step.v
               InBounds(r) == lo <= r.strike /\ r.strike <= hi
           IN  result.view = SelectSeq(chain, InBounds)

\* C5 witness: loadChain has windowed the five-row chain around 24700 with
\* step 100 and half-width 1, keeping three rows and dropping two
C5_Witness ==
    /\ call = "loadChain"
    /\ ~fullIn
    /\ chain = AscendingChain(Strikes)
    /\ spotIn = Num(24725)
    /\ stepIn = Num(100)
    /\ winIn = 1
    /\ result.atm = Num(24700)
    /\ result.view = <<Row(24700), Row(24750), Row(24800)>>

\* C6 (as claimed): the window selector fails open: whenever the step is
\* non-finite or the ATM is null (the empty chain and a payload without a usable
\* spot included) it returns the full input chain.
C6_FailOpen ==
    (call \in {"renderChain", "loadChain"} /\ ~fullIn
        /\ (~IsFinite(result.step) \/ result.atm = NullV
            \/ Len(chain) = 0 \/ ~IsFinite(spotIn)))
        => result.view = chain

ExampleChain == <<Row(24700), Row(24750), Row(24800), Row(24850), Row(24900)>>

\* C7: strikes [24700,24750,24800,24850,24900], spot 24810, step 50,
\* half-width 1, showFull false: the ATM is 24800 and the window is exactly
\* the rows 24750, 24800, 24850.
C7_Example ==
    (chain = ExampleChain /\ spotIn = Num(24810) /\ stepIn = Num(50)
        /\ winIn = 1 /\ ~fullIn)
        => /\ call \in ComputeATMCalls \cup {"loadChain"}
                => result.atm = Num(24800)
           /\ call \in {"renderChain", "loadChain"}
                => result.view = <<Row(24750), Row(24800), Row(24850)>>

\* C7 witness: renderChain has run on the example
C7_Witness ==
    /\ call = "renderChain"
    /\ chain = ExampleChain
    /\ spotIn = Num(24810)
    /\ stepIn = Num(50)
    /\ winIn = 1
    /\ ~fullIn
    /\ result.atm = Num(24800)
    /\ Len(result.view) = 3

\* C15: whenever renderChain or loadChain computes window bounds, the step
\* it uses is positive, whatever step it was handed (null, 0, negative, NaN),
\* so that for a half-width of at least 0 the bounds satisfy lo <= atm <= hi.
C15_StepPositive ==
    (call \in {"renderChain", "loadChain"} /\ ~fullIn /\ result.atm # NullV
        /\ (call = "renderChain" => IsFinite(result.step)))
        => /\ JsLt(Num(0), result.step)
           /\ winIn >= 0 =>
                 /\ JsLe(JsSub(result.atm, JsMul(Num(winIn), result.step)), result.atm)
                 /\ JsLe(result.atm, JsAdd(result.atm, JsMul(Num(winIn), result.step)))

\* loadChain has windowed the chain with a finite spot and a positive finite step
LoadChainWindowed ==
    /\ call \in {"loadChain", "loadChainForOf"}
    /\ ~fullIn
    /\ spotIn.k = "fin"
    /\ result.atm # NullV
    /\ result.step.k = "fin" /\ result.step.v > 0

\* C19: with showFull off and a valid spot and step, centeredWindow keeps
\* exactly 2*win+1 rows, a constant row count for every chain and spot
\* (part_002: "Keep exactly ATM-centered window (2*win+1 rows)", "strictly
\* keep ATM +- window (constant rows)").
C19_ConstantRowCount ==
    LoadChainWindowed => Len(result.view) = 2 * winIn + 1

\* a window selector has applied a window: showFull off, a chain with rows,
\* an ATM strike found, a positive step and a half-width of at least 0
WindowApplied ==
    /\ call \in {"renderChain", "loadChain", "loadChainReduce", "loadChainForOf"}
    /\ ~fullIn
    /\ Len(chain) > 0
    /\ result.atm # NullV /\ result.atm.k = "fin"
    /\ result.step.k = "fin" /\ result.step.v > 0
    /\ winIn >= 0

\* C27: whenever a window selector applies a window, the row at the ATM
\* strike is among the rows it returns, so the window is not empty.
C27_AtmRowInWindow ==
    WindowApplied =>
        /\ \E i \in 1..Len(result.view) : result.view[i].strike = result.atm.v
        /\ Len(result.view) > 0

\* C27 witness: renderChain with the strikes 24700..24900, spot 24810, step
\* 50 and half-width 0 returns the ATM row 24800 alone.
C27_Witness ==
    /\ WindowApplied
    /\ call = "renderChain"
    /\ chain = ExampleChain
    /\ spotIn = Num(24810)
    /\ winIn = 0
    /\ result.atm = Num(24800)
    /\ result.view = <<Row(24800)>>

----------------------------------------------------------------------------
(* Spec: the page.  Three of the dashboard scripts are modelled:           *)
(*   "Js"    public/Js/dashboard.js  (fetchAndRenderChain, renderChain)    *)
(*   "js"    public/js/dashboard.js, first script (loadChain with          *)
(*           centeredWindow, Refresh and Load More)                        *)
(*   "p003"  the script with the market-quote and depth timers             *)
(* A request in flight is a record of the set ui.reqs; the coroutine that  *)
(* awaits it is its owner.  Responses resolve in any order.                *)

\* most requests issued in one run
MaxReq == 4

\* current.strikes_window is not followed beyond this value
WindowCap == 55

Variants == {"Js", "js", "p003"}

\* the instruments the watchlist and the backend list: id, segment and step
Catalog ==
    <<[id |-> 13, seg |-> "IDX_I", step |-> Num(50)],
      [id |-> 25, seg |-> "IDX_I", step |-> Num(0)]>>

\* ID_STEPS[id], with ID_STEPS = { 13: 50, 25: 100 }; undefined for other ids
IdSteps(id) ==
    IF id = 13 THEN Num(50) ELSE IF id = 25 THEN Num(100) ELSE NullV

\* DEFAULT_STEPS[seg], with DEFAULT_STEPS = { IDX_I: 50, NSE_I: 50,
\* IDX_FO: 50, NSE_E: 10, BSE_E: 10 }; undefined for other segments
DefaultSteps(seg) ==
    IF seg \in {"IDX_I", "NSE_I", "IDX_FO"} THEN Num(50)
    ELSE IF seg \in {"NSE_E", "BSE_E"} THEN Num(10)
    ELSE NullV

\* Number(ID_STEPS[id] ?? DEFAULT_STEPS[seg] ?? 50)
BackendStep(id, seg) ==
    IF IdSteps(id) # NullV THEN IdSteps(id)
    ELSE IF DefaultSteps(seg) # NullV THEN DefaultSteps(seg)
    ELSE Num(50)

\* an <option> of the instrument select: an instrument, the "Select..."
\* placeholder (value ""), or a message option (Loading... / Error...)
InstOption(id, step) == [kind |-> "inst", id |-> id, step |-> step]
PlaceholderOption == [kind |-> "placeholder", id |-> 0, step |-> NullV]
MsgOption == [kind |-> "msg", id |-> 0, step |-> NullV]

\* the option setSelectError(els.instrument, "Error loading instruments") writes
ErrorOption == [kind |-> "error", id |-> 0, step |-> NullV]

\* an <option> of the expiry select: an expiry of an instrument, or a message
ExpOption(inst, n) == [kind |-> "exp", inst |-> inst, n |-> n]
ExpMsgOption == [kind |-> "msg", inst |-> 0, n |-> 0]

\* the value null / "" of current.expiry
NoExpiry == [kind |-> "none", inst |-> 0, n |-> 0]

\* a <select>: its options and the index of the selected one (0: no option)
Select(opts) == [opts |-> opts, sel |-> IF Len(opts) = 0 THEN 0 ELSE 1]
EmptySelect == Select(<<>>)

\* select.selectedOptions[0]: defined iff HasSelected
HasSelected(sel) == sel.sel # 0
Selected(sel) == sel.opts[sel.sel]

\* the expiry list the backend holds for an instrument
ExpiriesOf(inst) == <<ExpOption(inst, 1), ExpOption(inst, 2)>>

\* the payloads the option-chain endpoint may answer with
Payloads ==
    {[spot |-> Num(24810), chain |-> ExampleChain],
     [spot |-> NullV, chain |-> <<Row(24750), Row(24800), Row(24850)>>]}

NoPayload == [spot |-> NullV, chain |-> <<>>]

\* the body of an HTTP 200 answer {status: "error", detail: ...}: no spot, no chain
StatusErrorBody == [spot |-> NullV, chain |-> <<>>]

\* what the table body shows
TableInitial == [kind |-> "initial", msg |-> "", rows |-> <<>>]
TableMsg(kind, msg) == [kind |-> kind, msg |-> msg, rows |-> <<>>]
TableRows(rows) == [kind |-> "rows", msg |-> "", rows |-> rows]

\* the health line: setHealth(msg, ok)
Health(text, ok) == [text |-> text, ok |-> ok]

\* the body of a request without option_chain
NoBody == [hasChain |-> FALSE, chain |-> NoPayload]

\* a request in flight
Request(rid, kind, owner, inst, exp, step) ==
    [rid |-> rid, kind |-> kind, owner |-> owner, inst |-> inst, exp |-> exp,
     step |-> step, body |-> NoBody]

\* fetch(...): the request joins the requests in flight
Issue(S, kind, owner, inst, exp, step) ==
    [S EXCEPT !.reqs = @ \cup {Request(S.nextRid, kind, owner, inst, exp, step)},
              !.nextRid = @ + 1]

\* the response of r has arrived: r is no longer in flight
Settle(S, r) == [S EXCEPT !.reqs = @ \ {r}]

\* the window input's value: a numeric text, "" (NullV) or other text (NaN)
WindowInputs == {Num(1), Num(0), Num(50), NullV}

\* the page before any script has run
InitialPage(w, f) ==
    [initPc    |-> "start",
     instSel   |-> EmptySelect,
     expSel    |-> EmptySelect,
     chkFull   |-> f,
     winInput  |-> w,
     cur       |-> [id |-> 0, expiry |-> NoExpiry, step |-> NullV, win |-> Num(5)],
     lastChain |-> NoPayload,
     hasChain  |-> FALSE,
     tbody     |-> TableInitial,
     health    |-> Health("", TRUE),
     meta      |-> NullV,
     spotLive  |-> "",
     depth     |-> "",
     aiOut     |-> "",
     reqs      |-> {},
     nextRid   |-> 1]

----------------------------------------------------------------------------
(* Script "Js": public/Js/dashboard.js                                     *)

\* the window every render falls back to: Number(els.window.value || 15)
JsDefaultWin == 15

\* loadExpiriesForSelected(): one request for the selected option, or the
\* "Select instrument first" option when the select is empty
Js_loadExpiriesForSelected(S, owner) ==
    LET S1 == [S EXCEPT !.expSel = Select(<<ExpMsgOption>>)]
    IN  IF ~HasSelected(S1.instSel)
        THEN [S1 EXCEPT !.initPc = IF owner = "init" THEN "done" ELSE @]
        ELSE Issue(S1, "expiries", owner, Selected(S1.instSel).id, NoExpiry, NullV)

\* loadInstruments(), up to the first await: the watchlist request
Js_loadInstruments(S) ==
    Issue([S EXCEPT !.instSel = Select(<<MsgOption>>)],
          "watchlist", "init", 0, NoExpiry, NullV)

\* loadInstruments() after list has been filled: the options are written and
\* init goes on to loadExpiriesForSelected()
Js_fillInstruments(S, list) ==
    LET opts == [i \in 1..Len(list) |-> InstOption(list[i].id, list[i].step)]
    IN  Js_loadExpiriesForSelected([S EXCEPT !.instSel = Select(opts)], "init")

\* loadInstruments() without the backend fallback
Js_watchlistSettled_noFallback(S, r, out) ==
    Js_fillInstruments(Settle(S, r), IF out = "ok" THEN Catalog ELSE <<>>)

\* the watchlist answered: with items the select is filled, without (or on a
\* failure, which is ignored) the backend is asked
Js_watchlistSettled(S, r, out) ==
    IF out = "ok" THEN Js_fillInstruments(Settle(S, r), Catalog)
    ELSE Issue(Settle(S, r), "instruments", "init", 0, NoExpiry, NullV)

\* /instruments answered: the steps come from ID_STEPS; on a failure the
\* select shows the error option, loadInstruments returns [] and init goes
\* on to loadExpiriesForSelected()
Js_instrumentsSettled(S, r, out) ==
    IF out = "ok"
    THEN Js_fillInstruments(Settle(S, r),
             [i \in 1..Len(Catalog) |->
                 [id |-> Catalog[i].id, seg |-> Catalog[i].seg,
                  step |-> BackendStep(Catalog[i].id, Catalog[i].seg)]])
    ELSE IF out = "empty" THEN Js_fillInstruments(Settle(S, r), <<>>)
    ELSE Js_loadExpiriesForSelected(
             [Settle(S, r) EXCEPT !.instSel = Select(<<ErrorOption>>)], "init")

\* the expiry list answered: the options are replaced, or the error option shown
Js_expiriesSettled(S, r, out) ==
    LET S1 == Settle(S, r)
        S2 == IF out = "ok" THEN [S1 EXCEPT !.expSel = Select(ExpiriesOf(r.inst))]
              ELSE IF out = "empty" THEN [S1 EXCEPT !.expSel = EmptySelect]
              ELSE [S1 EXCEPT !.expSel = Select(<<ExpMsgOption>>)]
    IN  IF r.owner = "init" THEN [S2 EXCEPT !.initPc = "done"] ELSE S2

\* fetchAndRenderChain(), up to the await
Js_fetchAndRenderChain(S, owner) ==
    IF ~HasSelected(S.instSel) \/ ~HasSelected(S.expSel)
    THEN [S EXCEPT !.tbody = TableMsg("select", "")]
    ELSE LET instOpt == Selected(S.instSel)
             step == IF instOpt.kind = "inst" THEN instOpt.step
                     ELSE Num(RenderDefaultStep)
         IN  Issue([S EXCEPT !.tbody = TableMsg("loading", "")],
                   "chain", owner, instOpt.id, Selected(S.expSel), step)

\* renderChain(data, showAll, win, stepGuess): the payload is kept for the AI
\* and the table replaced by the view
Js_renderChain(S, data, showAll, win, stepGuess) ==
    LET w == renderChainWindow(data.spot, data.chain, showAll, win, stepGuess)
    IN  [S EXCEPT !.lastChain = data,
                  !.hasChain = TRUE,
                  !.meta = NumberOfSpotField(data.spot),
                  !.tbody = IF Len(w.view) = 0 THEN TableMsg("norows", "")
                            ELSE TableRows(w.view)]

\* fetchAndRenderChain() that drops a response when a newer request exists
Js_chainSettled_dropStale(S, r, out, data, msg) ==
    LET S1 == Settle(S, r)
        win == IF S1.winInput.k = "fin" THEN S1.winInput ELSE Num(JsDefaultWin)
    IN  IF r.rid + 1 < S.nextRid THEN S1
        ELSE IF out = "ok" THEN Js_renderChain(S1, data, S1.chkFull, win, r.step)
        ELSE [S1 EXCEPT !.tbody = TableMsg("error", msg)]

\* fetchAndRenderChain() after the await: render, or showChainError(e.message)
\* for a rejected fetch, a non-OK status and a body whose status is not success
Js_chainSettled(S, r, out, data, msg) ==
    LET S1 == Settle(S, r)
        win == IF S1.winInput.k = "fin" THEN S1.winInput ELSE Num(JsDefaultWin)
    IN  IF out = "ok" THEN Js_renderChain(S1, data, S1.chkFull, win, r.step)
        ELSE [S1 EXCEPT !.tbody = TableMsg("error", msg)]

\* runAIAnalysis(), up to the await: the request names the selected
\* instrument and expiry and carries option_chain: lastChainData || null
Js_runAIAnalysis(S) ==
    IF ~HasSelected(S.instSel) \/ ~HasSelected(S.expSel)
    THEN [S EXCEPT !.aiOut = "select first"]
    ELSE LET r == [Request(S.nextRid, "ai", "analyze", Selected(S.instSel).id,
                           Selected(S.expSel), NullV)
                      EXCEPT !.body = [hasChain |-> S.hasChain, chain |-> S.lastChain]]
         IN  [S EXCEPT !.aiOut = "analyzing",
                       !.reqs = @ \cup {r},
                       !.nextRid = @ + 1]

\* runAIAnalysis() after the await: the analysis text, or "AI error: ..."
Js_aiSettled(S, r, out) ==
    [Settle(S, r) EXCEPT !.aiOut = IF out = "ok" THEN "analysis" ELSE "error"]

----------------------------------------------------------------------------
(* Script "js": public/js/dashboard.js, first script                       *)

\* the bounds of the window input's handler: Math.max(1, Math.min(50, ...))
WinMin == 1
WinMax == 50

\* the value the window handlers fall back to: Number(inpWindow.value) || 5
WinFallback == 5

\* what Load More adds: current.strikes_window += 5
LoadMoreStep == 5

\* Number(selInstrument.selectedOptions[0]?.dataset.step || 0)
DatasetStep(opt) == IF opt.kind = "inst" THEN opt.step ELSE Num(0)

\* the select after loadInstruments: the placeholder, then the instruments
CatalogSelect(list) ==
    Select(<<PlaceholderOption>>
           \o [i \in 1..Len(list) |-> InstOption(list[i].id, list[i].step)])

\* loadChain(), up to the await: nothing is requested without an instrument
\* and an expiry
js_loadChain(S, owner) ==
    IF S.cur.id = 0 \/ S.cur.expiry.kind = "none"
    THEN LET S1 == [S EXCEPT !.tbody = TableMsg("select", "")]
         IN  IF owner = "init" THEN [S1 EXCEPT !.initPc = "done"] ELSE S1
    ELSE Issue([S EXCEPT !.health = Health("Loading chain", TRUE)],
               "chain", owner, S.cur.id, S.cur.expiry, NullV)

\* loadExpiries(), up to the await
js_loadExpiries(S, owner) ==
    LET opt == Selected(S.instSel)
        S1  == [S EXCEPT !.expSel = Select(<<ExpMsgOption>>),
                         !.cur.id = opt.id,
                         !.cur.step = DatasetStep(opt)]
    IN  Issue(S1, "expiries", owner, opt.id, NoExpiry, NullV)

\* loadInstruments(), up to the await
js_loadInstruments(S) ==
    Issue([S EXCEPT !.health = Health("Loading instruments", TRUE)],
          "instruments", "init", 0, NoExpiry, NullV)

\* /instruments answered; init picks the first instrument when there is one.
\* A failure ends init in its catch: setHealth(e.message, false)
js_instrumentsSettled(S, r, out, msg) ==
    LET S1 == Settle(S, r)
        list == IF out = "ok" THEN Catalog ELSE <<>>
        S2 == [S1 EXCEPT !.instSel = CatalogSelect(list),
                         !.health = Health("Instruments ready", TRUE)]
    IN  IF out = "fail"
        THEN [S1 EXCEPT !.health = Health(msg, FALSE), !.initPc = "done"]
        ELSE IF Len(S2.instSel.opts) > 1
        THEN js_loadExpiries([S2 EXCEPT !.instSel.sel = 2], "init")
        ELSE [S2 EXCEPT !.health = Health("Add items", FALSE), !.initPc = "done"]

\* the expiry list answered: current.expiry = selExpiry.value || null, then the
\* caller goes on to loadChain(); a failure ends the caller in its catch
js_expiriesSettled(S, r, out, msg) ==
    LET S1 == Settle(S, r)
        sel == IF out = "ok" THEN Select(ExpiriesOf(r.inst)) ELSE EmptySelect
        S2 == [S1 EXCEPT !.expSel = sel,
                         !.cur.expiry = IF HasSelected(sel) THEN Selected(sel)
                                        ELSE NoExpiry]
    IN  IF out = "fail"
        THEN [S1 EXCEPT !.health = Health(msg, FALSE),
                        !.initPc = IF r.owner = "init" THEN "done" ELSE @]
        ELSE js_loadChain(S2, r.owner)

\* renderRows(rows)
js_renderRows(rows) ==
    IF Len(rows) = 0 THEN TableMsg("norows", "") ELSE TableRows(rows)

\* loadChain() whose renderRows adds the rows to those already in the table
js_chainSettled_appends(S, r, out, data, msg) ==
    LET S1 == Settle(S, r)
        S2 == IF r.owner = "init" THEN [S1 EXCEPT !.initPc = "done"] ELSE S1
        w  == loadChainRows(data.spot, data.chain, S2.chkFull, S2.cur.win, S2.cur.step)
    IN  IF out = "fail"
        THEN [S2 EXCEPT !.health = Health(msg, FALSE)]
        ELSE [S2 EXCEPT !.lastChain = data,
                        !.hasChain = TRUE,
                        !.meta = data.spot,
                        !.tbody = js_renderRows(S.tbody.rows \o w.view),
                        !.health = Health("Loaded rows", TRUE)]

\* loadChain() after the await: a rejected fetch or non-OK status ends in the
\* caller's catch; any parsed body is cached and rendered
js_chainSettled(S, r, out, data, msg) ==
    LET S1 == Settle(S, r)
        S2 == IF r.owner = "init" THEN [S1 EXCEPT !.initPc = "done"] ELSE S1
        w  == loadChainRows(data.spot, data.chain, S2.chkFull, S2.cur.win, S2.cur.step)
    IN  IF out = "fail"
        THEN [S2 EXCEPT !.health = Health(msg, FALSE)]
        ELSE [S2 EXCEPT !.lastChain = data,
                        !.hasChain = TRUE,
                        !.meta = data.spot,
                        !.tbody = js_renderRows(w.view),
                        !.health = Health("Loaded rows", TRUE)]

\* Number(inpWindow.value) || 5
WindowNumberOr5(v) == IF Truthy(v) THEN v ELSE Num(WinFallback)

\* Math.min(a, b) and Math.max(a, b)
JsMin(a, b) ==
    IF a.k = "nan" \/ b.k = "nan" THEN NaN ELSE IF JsLe(a, b) THEN a ELSE b

JsMax(a, b) ==
    IF a.k = "nan" \/ b.k = "nan" THEN NaN ELSE IF JsLe(a, b) THEN b ELSE a

\* rows.slice(0, n)
FirstRows(rows, n) == SubSeq(rows, 1, IF Len(rows) < n THEN Len(rows) ELSE n)

\* aiBtn click, up to the await: without a cached payload "Load chain
\* first."; otherwise the prompt carries spot and the first 31 rows of
\* lastChainCache and names no instrument and no expiry
js_analyze(S) ==
    IF ~S.hasChain THEN [S EXCEPT !.aiOut = "load chain first"]
    ELSE LET r == [Request(S.nextRid, "ai", "analyze", 0, NoExpiry, NullV)
                      EXCEPT !.body =
                          [hasChain |-> TRUE,
                           chain |-> [spot |-> S.lastChain.spot,
                                      chain |-> FirstRows(S.lastChain.chain, 31)]]]
         IN  [S EXCEPT !.aiOut = "analyzing",
                       !.reqs = @ \cup {r},
                       !.nextRid = @ + 1]

\* aiBtn click after the await: the answer, or "AI error: ..." for a
\* rejected fetch and a non-OK status
js_aiSettled(S, r, out) ==
    [Settle(S, r) EXCEPT !.aiOut = IF out = "ok" THEN "analysis" ELSE "error"]

\* inpWindow change: Math.max(1, Math.min(50, Number(inpWindow.value) || 5))
js_windowChanged(S, v) ==
    LET n == WindowNumberOr5(v)
        c == JsMax(Num(WinMin), JsMin(Num(WinMax), n))
    IN  [S EXCEPT !.winInput = v, !.cur.win = c]

\* btnLoadMore click: the window grows by 5, the input follows, then loadChain()
js_loadMore(S) ==
    js_loadChain([S EXCEPT !.cur.win = JsAdd(@, Num(LoadMoreStep)),
                           !.winInput = JsAdd(S.cur.win, Num(LoadMoreStep))],
                 "loadMore")

----------------------------------------------------------------------------
(* Script "p003": the script with the market-quote and depth timers        *)

\* loadExpiries(), up to the await
p003_loadExpiries(S, owner) ==
    LET opt == Selected(S.instSel)
        S1  == [S EXCEPT !.cur.id = opt.id, !.cur.step = DatasetStep(opt)]
    IN  Issue(S1, "expiries", owner, opt.id, NoExpiry, NullV)

\* loadInstruments(), up to the await
p003_loadInstruments(S) == Issue(S, "instruments", "init", 0, NoExpiry, NullV)

\* /instruments answered; a failure rejects init, which nobody catches
p003_instrumentsSettled(S, r, out) ==
    LET S1 == Settle(S, r)
        list == IF out = "ok" THEN Catalog ELSE <<>>
        S2 == [S1 EXCEPT !.instSel = CatalogSelect(list)]
    IN  IF out = "fail" THEN [S1 EXCEPT !.initPc = "done"]
        ELSE IF Len(S2.instSel.opts) > 1
        THEN p003_loadExpiries([S2 EXCEPT !.instSel.sel = 2], "init")
        ELSE [S2 EXCEPT !.health = Health("Ready", TRUE), !.initPc = "done"]

\* the expiry list answered: current.expiry = selExpiry.value; a failure
\* rejects the caller, which nobody catches
p003_expiriesSettled(S, r, out) ==
    LET S1 == Settle(S, r)
        sel == IF out = "ok" THEN Select(ExpiriesOf(r.inst)) ELSE EmptySelect
        S2 == [S1 EXCEPT !.expSel = sel,
                         !.cur.expiry = IF HasSelected(sel) THEN Selected(sel)
                                        ELSE NoExpiry]
    IN  IF out = "fail"
        THEN [S1 EXCEPT !.initPc = IF r.owner = "init" THEN "done" ELSE @]
        ELSE IF r.owner = "init"
        THEN [S2 EXCEPT !.health = Health("Ready", TRUE), !.initPc = "done"]
        ELSE S2

\* loadChain(), up to the await: the request is sent whatever current holds
p003_loadChain(S, owner) ==
    Issue(S, "chain", owner, S.cur.id, S.cur.expiry, NullV)

\* loadChain() after the await: the rows are written and the chips filled; a
\* rejected fetch rejects loadChain, which no handler catches
p003_chainSettled(S, r, out, data, msg) ==
    LET S1 == Settle(S, r)
    IN  IF out = "fail" THEN S1
        ELSE [S1 EXCEPT !.tbody = TableRows(data.chain),
                        !.meta = data.spot,
                        !.spotLive = "spot",
                        !.health = Health("Loaded rows", TRUE)]

\* aiBtn click, up to the await: "Calling AI…" and a request that carries
\* the prompt only
p003_analyze(S) ==
    [Issue(S, "ai", "analyze", 0, NoExpiry, NullV) EXCEPT !.aiOut = "calling"]

\* aiBtn click after the await: the answer (or the body as text), or
\* "AI error: ..." for a rejected fetch and a body that does not parse
p003_aiSettled(S, r, out) ==
    [Settle(S, r) EXCEPT !.aiOut = IF out = "ok" THEN "analysis" ELSE "error"]

\* inpWindow change: current.strikes_window = Number(inpWindow.value) || 5
p003_windowChanged(S, v) ==
    [S EXCEPT !.winInput = v, !.cur.win = WindowNumberOr5(v)]

\* btnLoadMore click
p003_loadMore(S) ==
    p003_loadChain([S EXCEPT !.cur.win = JsAdd(@, Num(LoadMoreStep)),
                             !.winInput = JsAdd(S.cur.win, Num(LoadMoreStep))],
                   "loadMore")

\* updateSpot() that reloads the chain on every tick
p003_updateSpot_reloadsChain(S) ==
    IF S.cur.id = 0 THEN S
    ELSE Issue(S, "chain", "timerSpot", S.cur.id, S.cur.expiry, NullV)

\* updateSpot(), up to the await (setInterval, 5000 ms): the market quote
p003_updateSpot(S) ==
    IF S.cur.id = 0 THEN S
    ELSE Issue(S, "quote", "timerSpot", S.cur.id, NoExpiry, NullV)

\* updateDepth(), up to the await (setInterval, 3000 ms): the 20-level depth
p003_updateDepth(S) ==
    IF S.cur.id = 0 THEN S
    ELSE Issue(S, "depth", "timerDepth", S.cur.id, NoExpiry, NullV)

\* updateSpot() / updateDepth() after the await
p003_quoteSettled(S, r, out) ==
    LET S1 == Settle(S, r)
    IN  IF r.kind = "quote"
        THEN [S1 EXCEPT !.spotLive = IF out = "ok" THEN "ltp" ELSE "dash"]
        ELSE IF out = "ok" THEN [S1 EXCEPT !.depth = "book"] ELSE S1

----------------------------------------------------------------------------
(* Spec: the page's handlers as actions                                    *)

\* the message of a rejected fetch or non-OK status, and the detail of a body
\* whose status is not success
FailMsg == "500 Internal Server Error"
StatusMsg == "backend detail"

\* whether the backend has data for the request: an instrument of the
\* catalog and, for the chain, one of its expiries
Answerable(r) == r.inst # 0 /\ (r.kind = "chain" => r.exp.kind = "exp")

ListOutcomes(r) == IF Answerable(r) THEN {"ok", "empty", "fail"} ELSE {"empty", "fail"}

\* the answers the option-chain endpoint may give to request r
ChainAnswers(r) ==
    {[out |-> "fail", data |-> NoPayload, msg |-> FailMsg],
     [out |-> "status", data |-> StatusErrorBody, msg |-> StatusMsg]}
    \cup (IF Answerable(r)
          THEN {[out |-> "ok", data |-> p, msg |-> ""] : p \in Payloads}
          ELSE {})

\* the new page is committed; the run stays within MaxReq requests
Commit(T) ==
    /\ T.nextRid <= MaxReq + 1
    /\ ui' = T
    /\ UNCHANGED <<winVars, variant, fmtVars>>

Init ==
    /\ variant \in Variants
    /\ \E w \in WindowInputs, f \in BOOLEAN : ui = InitialPage(w, f)
    /\ resolved = <<>>
    /\ chain = <<>> /\ spotIn = NullV /\ stepIn = NullV
    /\ winIn = 0 /\ fullIn = FALSE
    /\ call = "none" /\ result = NoResult
    /\ fmtIn = NoRow /\ fmtOut = NoCells

\* the script is loaded: listeners and timers are registered, init() runs up
\* to its first await
RunInit ==
    /\ ui.initPc = "start"
    /\ LET S == [ui EXCEPT !.initPc = "running"]
       IN  Commit(CASE variant = "Js" -> Js_loadInstruments(S)
                    [] variant = "js" -> js_loadInstruments(S)
                    [] OTHER -> p003_loadInstruments(S))
    /\ UNCHANGED resolved

ResolveWatchlist ==
    /\ variant = "Js"
    /\ \E r \in ui.reqs : \E out \in {"ok", "empty", "fail"} :
          /\ r.kind = "watchlist"
          /\ Commit(Js_watchlistSettled(ui, r, out))
    /\ UNCHANGED resolved

ResolveInstruments ==
    /\ \E r \in ui.reqs : \E out \in {"ok", "empty", "fail"} :
          /\ r.kind = "instruments"
          /\ Commit(CASE variant = "Js" -> Js_instrumentsSettled(ui, r, out)
                      [] variant = "js" -> js_instrumentsSettled(ui, r, out, FailMsg)
                      [] OTHER -> p003_instrumentsSettled(ui, r, out))
    /\ UNCHANGED resolved

ResolveExpiries ==
    /\ \E r \in ui.reqs : \E out \in ListOutcomes(r) :
          /\ r.kind = "expiries"
          /\ Commit(CASE variant = "Js" -> Js_expiriesSettled(ui, r, out)
                      [] variant = "js" -> js_expiriesSettled(ui, r, out, FailMsg)
                      [] OTHER -> p003_expiriesSettled(ui, r, out))
    /\ UNCHANGED resolved

\* the response of an option-chain request arrives, whichever was sent first
ResolveChain ==
    \E r \in ui.reqs : \E a \in ChainAnswers(r) :
        /\ r.kind = "chain"
        /\ Commit(CASE variant = "Js" -> Js_chainSettled(ui, r, a.out, a.data, a.msg)
                    [] variant = "js" -> js_chainSettled(ui, r, a.out, a.data, a.msg)
                    [] OTHER -> p003_chainSettled(ui, r, a.out, a.data, a.msg))
        /\ resolved' = Append(resolved, [rid |-> r.rid, owner |-> r.owner,
                                         inst |-> r.inst, exp |-> r.exp,
                                         out |-> a.out, data |-> a.data])

ResolveQuote ==
    /\ \E r \in ui.reqs : \E out \in {"ok", "fail"} :
          /\ r.kind = "quote"
          /\ Commit(p003_quoteSettled(ui, r, out))
    /\ UNCHANGED resolved

ResolveDepth ==
    /\ \E r \in ui.reqs : \E out \in {"ok", "fail"} :
          /\ r.kind = "depth"
          /\ Commit(p003_quoteSettled(ui, r, out))
    /\ UNCHANGED resolved

\* the user picks another option of the instrument select
ChangeInstrument ==
    /\ ui.initPc # "start"
    /\ \E i \in 1..Len(ui.instSel.opts) :
          /\ i # ui.instSel.sel
          /\ LET S == [ui EXCEPT !.instSel.sel = i]
             IN  Commit(CASE variant = "Js" -> Js_loadExpiriesForSelected(S, "instChange")
                          [] variant = "js" -> js_loadExpiries(S, "instChange")
                          [] OTHER -> p003_loadExpiries(S, "instChange"))
    /\ UNCHANGED resolved

\* the user picks another option of the expiry select
ChangeExpiry ==
    /\ ui.initPc # "start"
    /\ \E k \in 1..Len(ui.expSel.opts) :
          /\ k # ui.expSel.sel
          /\ LET S == [ui EXCEPT !.expSel.sel = k]
             IN  Commit(IF variant = "Js" THEN S
                        ELSE [S EXCEPT !.cur.expiry = Selected(S.expSel)])
    /\ UNCHANGED resolved

\* the user edits the window input
ChangeWindow ==
    /\ ui.initPc # "start"
    /\ \E v \in WindowInputs :
          /\ v # ui.winInput
          /\ Commit(CASE variant = "Js" -> [ui EXCEPT !.winInput = v]
                      [] variant = "js" -> js_windowChanged(ui, v)
                      [] OTHER -> p003_windowChanged(ui, v))
    /\ UNCHANGED resolved

\* the user flips the show-full checkbox
ToggleShowFull ==
    /\ ui.initPc # "start"
    /\ LET S == [ui EXCEPT !.chkFull = ~@]
       IN  Commit(IF variant = "Js" THEN Js_fetchAndRenderChain(S, "showFull") ELSE S)
    /\ UNCHANGED resolved

ClickRefresh ==
    /\ ui.initPc # "start"
    /\ Commit(CASE variant = "Js" -> Js_fetchAndRenderChain(ui, "refresh")
                [] variant = "js" -> js_loadChain(ui, "refresh")
                [] OTHER -> p003_loadChain(ui, "refresh"))
    /\ UNCHANGED resolved

ClickLoadMore ==
    /\ ui.initPc # "start"
    /\ variant \in {"js", "p003"}
    /\ JsLe(JsAdd(ui.cur.win, Num(LoadMoreStep)), Num(WindowCap))
    /\ Commit(IF variant = "js" THEN js_loadMore(ui) ELSE p003_loadMore(ui))
    /\ UNCHANGED resolved

\* the user clicks the AI analyze button
ClickAnalyze ==
    /\ ui.initPc # "start"
    /\ Commit(CASE variant = "Js" -> Js_runAIAnalysis(ui)
                [] variant = "js" -> js_analyze(ui)
                [] OTHER -> p003_analyze(ui))
    /\ UNCHANGED resolved

ResolveAI ==
    /\ \E r \in ui.reqs : \E out \in {"ok", "fail"} :
          /\ r.kind = "ai"
          /\ Commit(CASE variant = "Js" -> Js_aiSettled(ui, r, out)
                      [] variant = "js" -> js_aiSettled(ui, r, out)
                      [] OTHER -> p003_aiSettled(ui, r, out))
    /\ UNCHANGED resolved

\* setInterval(updateSpot, 5000)
TimerSpot ==
    /\ ui.initPc # "start"
    /\ variant = "p003"
    /\ Commit(p003_updateSpot(ui))
    /\ UNCHANGED resolved

\* setInterval(updateDepth, 3000)
TimerDepth ==
    /\ ui.initPc # "start"
    /\ variant = "p003"
    /\ Commit(p003_updateDepth(ui))
    /\ UNCHANGED resolved

Next ==
    \/ RunInit
    \/ ResolveWatchlist
    \/ ResolveInstruments
    \/ ResolveExpiries
    \/ ResolveChain
    \/ ResolveQuote
    \/ ResolveDepth
    \/ ChangeInstrument
    \/ ChangeExpiry
    \/ ChangeWindow
    \/ ToggleShowFull
    \/ ClickRefresh
    \/ ClickLoadMore
    \/ ClickAnalyze
    \/ ResolveAI
    \/ TimerSpot
    \/ TimerDepth

Spec == Init /\ [][Next]_vars

----------------------------------------------------------------------------
(* Claims about the page                                                   *)

\* this step is the arrival of an option-chain response
ChainResolves == Len(resolved') = Len(resolved) + 1

\* the response that arrives in this step
LastResolved == resolved'[Len(resolved')]

\* the option-chain requests in flight
ChainReqs(S) == {q \in S.reqs : q.kind = "chain"}

\* C8: when the option-chain request of a refresh fails (rejected fetch,
\* non-OK status, or a body whose status is not success), the step in which
\* the failure arrives leaves an error row in the table or a failing health
\* line, and sends no further request; in every script.
C8_FailureShownNoRetry ==
    [][(ChainResolves /\ LastResolved.out # "ok") =>
          /\ ui'.tbody.kind = "error" \/ ~ui'.health.ok
          /\ ui'.reqs \subseteq ui.reqs]_vars

\* the table fetchAndRenderChain writes for payload data of request r, given
\* the controls of page S
Js_tableFor(S, r, data) ==
    LET win == IF S.winInput.k = "fin" THEN S.winInput ELSE Num(JsDefaultWin)
        w   == renderChainWindow(data.spot, data.chain, S.chkFull, win, r.step)
    IN  IF Len(w.view) = 0 THEN TableMsg("norows", "") ELSE TableRows(w.view)

\* C9: in public/Js/dashboard.js no step takes an option-chain request out
\* of flight except the arrival of its own response, and every response that
\* arrives with a payload replaces the table and the cached payload by that
\* payload, whether or not a later request exists: the last response to
\* arrive wins.
C9_LastResolvedWins ==
    [][variant = "Js" =>
          /\ \A q \in ChainReqs(ui) :
                q \in ui'.reqs \/ (ChainResolves /\ LastResolved.rid = q.rid)
          /\ (ChainResolves /\ LastResolved.out = "ok") =>
                LET r == CHOOSE q \in ui.reqs : q.rid = LastResolved.rid
                IN  /\ ui'.lastChain = LastResolved.data
                    /\ ui'.tbody = Js_tableFor(ui, r, LastResolved.data)]_vars

\* C9 witness: two refreshes were in flight together, the later request was
\* answered first, and the table and the cache hold the payload of the
\* earlier request, which was answered last.
C9_Witness ==
    /\ variant = "Js"
    /\ Len(resolved) = 2
    /\ resolved[1].rid > resolved[2].rid
    /\ resolved[1].out = "ok" /\ resolved[2].out = "ok"
    /\ resolved[1].data # resolved[2].data
    /\ ui.lastChain = resolved[2].data
    /\ ui.tbody.kind = "rows"
    /\ \A i \in 1..Len(ui.tbody.rows) :
          \E j \in 1..Len(resolved[2].data.chain) :
              ui.tbody.rows[i] = resolved[2].data.chain[j]
    /\ resolved[2].data.spot = Num(24810)

\* the handlers a user action runs
UserOwners == {"refresh", "showFull", "instChange", "loadMore"}

\* the owners of every option-chain request sent so far: in flight or answered
ChainOwnersInFlight == {q.owner : q \in ChainReqs(ui)}
ChainOwnersAnswered == {resolved[i].owner : i \in 1..Len(resolved)}

\* the option-chain requests init() has sent so far
InitChainCount ==
    Cardinality({q \in ChainReqs(ui) : q.owner = "init"})
    + Cardinality({i \in 1..Len(resolved) : resolved[i].owner = "init"})

\* C10 (as stated): every option-chain request is sent by a handler of a
\* user action; none is sent by init() or by a timer.
C10_OnlyUserAction ==
    ChainOwnersInFlight \cup ChainOwnersAnswered \subseteq UserOwners

\* C10 (amended): every option-chain request is sent by a handler of a user
\* action or by init(); init() sends at most one, and only in the script
\* public/js/dashboard.js, which loads the chain of the first instrument at
\* start-up; no timer sends one.
C10_UserActionOrInit ==
    /\ ChainOwnersInFlight \cup ChainOwnersAnswered \subseteq UserOwners \cup {"init"}
    /\ InitChainCount <= 1
    /\ InitChainCount = 1 => variant = "js"

\* C10 witness: the chain loaded by init() has been answered and a Refresh
\* click has a request in flight.
C10_Witness ==
    /\ variant = "js"
    /\ \E i \in 1..Len(resolved) : resolved[i].owner = "init"
    /\ \E q \in ChainReqs(ui) : q.owner = "refresh"

\* the table loadChain writes for payload data, given the controls and
\* current.step of page S
js_tableFor(S, data) ==
    js_renderRows(loadChainRows(data.spot, data.chain, S.chkFull, S.cur.win,
                                S.cur.step).view)

\* the rows of a chain, as a set
RowsOf(rows) == {rows[i] : i \in 1..Len(rows)}

\* C11: when a refresh completes with a payload, the table is exactly the
\* window of that payload under the show-full flag and half-width of that
\* moment and the step of the refresh (public/Js/dashboard.js: the step read
\* when the refresh started; public/js/dashboard.js: current.step): every row
\* shown is a row of that payload and nothing of the earlier table is kept.
C11_TableIsWindowOfPayload ==
    [][(variant \in {"Js", "js"} /\ ChainResolves /\ LastResolved.out = "ok") =>
          LET r == CHOOSE q \in ui.reqs : q.rid = LastResolved.rid
              d == LastResolved.data
          IN  /\ ui'.tbody = IF variant = "Js" THEN Js_tableFor(ui, r, d)
                             ELSE js_tableFor(ui, d)
              /\ RowsOf(ui'.tbody.rows) \subseteq RowsOf(d.chain)]_vars

\* C11 witness: in public/js/dashboard.js a first payload was rendered, a
\* second, different payload arrived after it, and the table holds rows of
\* the second payload only, although the first had rows the second lacks.
C11_Witness ==
    /\ variant = "js"
    /\ Len(resolved) = 2
    /\ resolved[1].out = "ok" /\ resolved[2].out = "ok"
    /\ RowsOf(resolved[1].data.chain) \ RowsOf(resolved[2].data.chain) # {}
    /\ ui.tbody.kind = "rows"
    /\ RowsOf(ui.tbody.rows) = RowsOf(resolved[2].data.chain)

\* C12: the cached payload (lastChainData / lastChainCache) changes only when
\* an option-chain response arrives: a response with a payload becomes the
\* cache, and a failed refresh (rejected fetch, non-OK status, body whose
\* status is not success) leaves the cache as it was.
C12_CacheFollowsSuccess ==
    [][(variant \in {"Js", "js"}) =>
          IF ChainResolves /\ LastResolved.out = "ok"
          THEN ui'.hasChain /\ ui'.lastChain = LastResolved.data
          ELSE ui'.hasChain = ui.hasChain /\ ui'.lastChain = ui.lastChain]_vars

\* the half-width fetchAndRenderChain hands to renderChain:
\* win = Number(els.window.value || 15); isFinite(win) ? win : 15
Js_halfWidth(S) == IF S.winInput.k = "fin" THEN S.winInput ELSE Num(JsDefaultWin)

\* the half-width the arriving payload is windowed with
HalfWidthUsed == IF variant = "Js" THEN Js_halfWidth(ui) ELSE ui.cur.win

\* C13: whenever a payload is handed to the window selector, the half-width
\* handed with it is at least 1, whatever the window input holds and however
\* often Load More was pressed.
C13_HalfWidthAtLeastOne ==
    [][(variant \in {"Js", "js"} /\ ChainResolves /\ LastResolved.out = "ok") =>
          JsGe(HalfWidthUsed, Num(1))]_vars

----------------------------------------------------------------------------
(* SpecFmt: one row of a payload is handed to one of the row templates     *)

\* the chain responses that were rendered, and the latest of them: the chain
\* the table displays once one has been rendered
RenderedIndexes == {i \in 1..Len(resolved) : resolved[i].out = "ok"}
LastRendered ==
    resolved[CHOOSE i \in RenderedIndexes : \A j \in RenderedIndexes : j <= i]

\* the AI requests a step issues
AiIssued == {q \in ui'.reqs \ ui.reqs : q.kind = "ai"}

\* C20: whenever runAIAnalysis (public/Js/dashboard.js) sends a request with
\* an option_chain, the table displays a chain, the option_chain is that
\* chain's payload, and the chain was fetched for the instrument and the
\* expiry the request names.
C20_AiChainIsDisplayedChain ==
    [][\A q \in AiIssued :
          (variant = "Js" /\ q.body.hasChain) =>
              /\ ui.tbody.kind \in {"rows", "norows"}
              /\ RenderedIndexes # {}
              /\ q.body.chain = LastRendered.data
              /\ q.inst = LastRendered.inst
              /\ q.exp = LastRendered.exp]_vars

\* C21: in the scripts that keep `current`, current.expiry is null or an
\* expiry of the list of the instrument in current.under_security_id, and no
\* option-chain request in flight pairs an instrument with an expiry of
\* another instrument.
C21_ExpiryBelongsToInstrument ==
    (variant \in {"js", "p003"}) =>
        /\ ui.cur.expiry.kind = "exp" => ui.cur.expiry.inst = ui.cur.id
        /\ \A r \in ui.reqs :
              (r.kind = "chain" /\ r.exp.kind = "exp") => r.exp.inst = r.inst

\* the option-chain requests a step sends
ChainIssued == {q \in ui'.reqs \ ui.reqs : q.kind = "chain"}

\* C22: every option-chain request names an instrument and an expiry; a
\* step that shows the "select instrument and expiry" message sends no
\* request and leaves the cached payload alone.
C22_NoChainRequestWithoutSelection ==
    [][/\ \A q \in ChainIssued : q.inst # 0 /\ q.exp.kind = "exp"
       /\ (ui'.tbody.kind = "select" /\ ui'.tbody # ui.tbody) =>
              /\ ui'.nextRid = ui.nextRid
              /\ ui'.lastChain = ui.lastChain
              /\ ui'.hasChain = ui.hasChain]_vars

\* the requests of a kind a step sends, and those whose response it handles
Sent(kind) == {q \in ui'.reqs \ ui.reqs : q.kind = kind}
Handled(kind) == {q \in ui.reqs \ ui'.reqs : q.kind = kind}

\* the instrument select holds instruments
Filled(sel) == \E i \in 1..Len(sel.opts) : sel.opts[i].kind = "inst"

\* C23: in public/Js, /instruments is requested only by the step that handles
\* the watchlist's response, and by that step exactly when the watchlist gave
\* no instrument (it failed or had no items); the error option enters the
\* instrument select only in the step that handles the response of
\* /instruments.
C23_BackendOnlyAsFallback ==
    [][(variant = "Js") =>
          /\ Sent("instruments") # {} => Handled("watchlist") # {}
          /\ Handled("watchlist") # {} =>
                (Sent("instruments") # {} <=> ~Filled(ui'.instSel))
          /\ (ui'.instSel.opts = <<ErrorOption>> /\ ui.instSel.opts # <<ErrorOption>>) =>
                Handled("instruments") # {}]_vars

\* C23 witness: the watchlist gave nothing, /instruments answered, and the
\* select holds the backend's instruments with the steps of ID_STEPS.
C23_Witness ==
    /\ variant = "Js"
    /\ ui.instSel.opts = <<InstOption(13, Num(50)), InstOption(25, Num(100))>>

\* C26: in the scripts that keep `current`, current.strikes_window is
\* within 1..50 in every state.
C26_WindowWithinLimits ==
    (variant \in {"js", "p003"}) =>
        (JsLe(Num(WinMin), ui.cur.win) /\ JsLe(ui.cur.win, Num(WinMax)))

InitFmt ==
    /\ fmtIn \in FmtRows
    /\ fmtOut = NoCells
    /\ chain = <<>> /\ spotIn = NullV /\ stepIn = NullV
    /\ winIn = 0 /\ fullIn = FALSE
    /\ call = "none" /\ result = NoResult
    /\ variant = "none"
    /\ ui = [initPc |-> "off"]
    /\ resolved = <<>>

\* renderChain's view.map (public/Js/dashboard.js)
ApplyJsRow ==
    /\ fmtOut = NoCells
    /\ fmtOut' = [by |-> "Js", cells |-> Js_rowCells(fmtIn)]
    /\ UNCHANGED <<winVars, uiVars, fmtIn>>

\* renderRows (public/js/dashboard.js, first script)
ApplyRenderRows ==
    /\ fmtOut = NoCells
    /\ fmtOut' = [by |-> "js", cells |-> js_rowCells(fmtIn)]
    /\ UNCHANGED <<winVars, uiVars, fmtIn>>

\* rowHTML (public/js/dashboard.js, second script)
ApplyRowHTML ==
    /\ fmtOut = NoCells
    /\ fmtOut' = [by |-> "js2", cells |-> js2_rowHTML(fmtIn)]
    /\ UNCHANGED <<winVars, uiVars, fmtIn>>

\* refreshChain's cells (public/js/dashboard.js, third script)
ApplyRefreshChainCells ==
    /\ fmtOut = NoCells
    /\ fmtOut' = [by |-> "js3", cells |-> js3_rowCells(fmtIn)]
    /\ UNCHANGED <<winVars, uiVars, fmtIn>>

\* rowHTML (part_000)
ApplyPart000RowHTML ==
    /\ fmtOut = NoCells
    /\ fmtOut' = [by |-> "p000", cells |-> p000_rowHTML(fmtIn)]
    /\ UNCHANGED <<winVars, uiVars, fmtIn>>

NextFmt ==
    \/ ApplyJsRow
    \/ ApplyRenderRows
    \/ ApplyRowHTML
    \/ ApplyRefreshChainCells
    \/ ApplyPart000RowHTML

SpecFmt == InitFmt /\ [][NextFmt]_vars

\* the sides of a row and the fields of a side a template renders
Sides == {"call", "put"}
CellFields(sd) == DOMAIN fmtOut.cells[sd]

\* C14: in every row template, a field that is null, undefined or NaN is
\* rendered as the em-dash, and no cell shows the text NaN.
C14_PlaceholderForMissing ==
    fmtOut # NoCells =>
        /\ \A sd \in Sides : \A f \in CellFields(sd) :
              /\ fmtIn[sd][f].k # "fin" => fmtOut.cells[sd][f] = Dash
              /\ fmtOut.cells[sd][f].kind # "NaN"
        /\ fmtOut.cells.strike.kind # "NaN"

\* C16: the open interest a row template shows is never negative: the cells
\* of call.oi and put.oi carry no minus sign, whatever the payload holds.
C16_OiNotNegative ==
    fmtOut # NoCells =>
        \A sd \in Sides : ~fmtOut.cells[sd].oi.neg

\* the templates C17 names: renderChain (Js), renderRows (js), refreshChain (js3)
C17Templates == {"Js", "js", "js3"}

\* the greeks and the OI-like fields of a side
PriceFields == {"price", "iv", "theta", "vega"}
OiFields == {"oi", "chgOi"}

\* a finite field is shown as a plain numeral with exactly d fraction digits
ShownWith(cell, d) == cell.kind \in {"fixed", "en-IN"} /\ cell.dec = d /\ cell.suffix = ""

\* C17 (as stated): in the three templates every finite price, iv and greek
\* is shown with exactly 2 fraction digits and every finite integer oi, chgOi
\* and strike with none.
C17_TwoAndZeroDecimals ==
    (fmtOut # NoCells /\ fmtOut.by \in C17Templates) =>
        /\ \A sd \in Sides : \A f \in CellFields(sd) :
              fmtIn[sd][f].k = "fin" =>
                  ShownWith(fmtOut.cells[sd][f], IF f \in OiFields THEN 0 ELSE 2)
        /\ ShownWith(fmtOut.cells.strike, 0)

\* the fraction digits a template gives delta and gamma
DeltaDigits(by) == IF by = "js" THEN 4 ELSE 2
GammaDigits(by) == IF by = "js" THEN 6 ELSE 4

\* an integer below 1000 in magnitude has no digits after the point in
\* fmtNum; from 1000 on fmtNum shows two, followed by K, L or Cr
FmtNumShape(x, cell) ==
    IF AbsInt(x.v) < Thousand THEN ShownWith(cell, 0)
    ELSE cell.kind = "fixed" /\ cell.dec = 2 /\ cell.suffix \in {" K", " L", " Cr"}

\* C17 (amended): price, iv, theta and vega are shown with exactly 2
\* fraction digits; delta with 4 and gamma with 6 by renderRows, with 2 and 4
\* by refreshChain (renderChain shows no greeks, renderRows no theta on the
\* put side); integer oi, chgOi and strike with none by renderRows and
\* refreshChain, and by renderChain with none below 1000 and with two and a
\* suffix from 1000 on.
C17_DecimalsPerField ==
    (fmtOut # NoCells /\ fmtOut.by \in C17Templates) =>
        /\ \A sd \in Sides : \A f \in CellFields(sd) :
              fmtIn[sd][f].k = "fin" =>
                  LET x == fmtIn[sd][f]
                      c == fmtOut.cells[sd][f]
                  IN  CASE f \in PriceFields -> ShownWith(c, 2)
                        [] f = "delta" -> ShownWith(c, DeltaDigits(fmtOut.by))
                        [] f = "gamma" -> ShownWith(c, GammaDigits(fmtOut.by))
                        [] OTHER -> IF fmtOut.by = "Js" THEN FmtNumShape(x, c)
                                    ELSE ShownWith(c, 0)
        /\ IF fmtOut.by = "Js" THEN FmtNumShape(fmtIn.strike, fmtOut.cells.strike)
           ELSE ShownWith(fmtOut.cells.strike, 0)
        /\ (fmtOut.by = "js") =>
              ("theta" \in CellFields("call") /\ "theta" \notin CellFields("put"))

\* C17 witness: renderRows has rendered price 123.456 as 123.46, delta -0.25
\* as -0.2500, gamma 123.456 as 123.456000 and the open interest 100000
\* without fraction digits.
C17_Witness ==
    /\ fmtOut # NoCells
    /\ fmtOut.by = "js"
    /\ fmtIn.call.price = Frac(123456, 1000)
    /\ fmtOut.cells.call.price =
          [kind |-> "fixed", neg |-> FALSE, int |-> 123, frac |-> 46, dec |-> 2,
           suffix |-> ""]
    /\ fmtIn.call.delta = Frac(-250, 1000)
    /\ fmtOut.cells.call.delta =
          [kind |-> "fixed", neg |-> TRUE, int |-> 0, frac |-> 2500, dec |-> 4,
           suffix |-> ""]
    /\ fmtOut.cells.call.gamma.dec = 6
    /\ fmtOut.cells.call.gamma.frac = 456000
    /\ fmtIn.call.oi = Frac(100000, 1)
    /\ fmtOut.cells.call.oi.int = 100000
    /\ fmtOut.cells.call.oi.dec = 0

\* the suffix the magnitude of the integer n calls for
SuffixFor(n) ==
    IF AbsInt(n) >= Crore THEN " Cr"
    ELSE IF AbsInt(n) >= Lakh THEN " L"
    ELSE IF AbsInt(n) >= Thousand THEN " K"
    ELSE ""

\* the cell is the fmtNum form of the integer n: the suffix of its magnitude,
\* a numeral (never the em-dash), and the sign of n
FmtNumFormOf(n, cell) ==
    /\ cell.kind \in {"fixed", "en-IN"}
    /\ cell.suffix = SuffixFor(n)
    /\ cell.neg = (n < 0)
    /\ (cell.suffix = "") = (cell.kind = "en-IN")

\* C18: for every integer n, fmtNum (renderChain's oi, chgOi and strike
\* cells) produces the form its magnitude calls for: Cr from 10^7, L from 10^5
\* up to 10^7, K from 10^3 up to 10^5, no suffix below 10^3; and keeps the
\* sign of n.
C18_SuffixByMagnitude ==
    (fmtOut # NoCells /\ fmtOut.by = "Js") =>
        /\ \A sd \in Sides : \A f \in OiFields :
              fmtIn[sd][f].k = "fin" =>
                  FmtNumFormOf(fmtIn[sd][f].v, fmtOut.cells[sd][f])
        /\ FmtNumFormOf(fmtIn.strike.v, fmtOut.cells.strike)

\* C18 witness: renderChain has shown -250000 as -2.50 L, 9999999 as
\* 100.00 L and the strike 24800 as 24.80 K.
C18_Witness ==
    /\ fmtOut # NoCells
    /\ fmtOut.by = "Js"
    /\ fmtIn.call.oi = Frac(-250000, 1)
    /\ fmtOut.cells.call.oi =
          [kind |-> "fixed", neg |-> TRUE, int |-> 2, frac |-> 50, dec |-> 2,
           suffix |-> " L"]
    /\ fmtIn.call.chgOi = Frac(9999999, 1)
    /\ fmtOut.cells.call.chgOi =
          [kind |-> "fixed", neg |-> FALSE, int |-> 100, frac |-> 0, dec |-> 2,
           suffix |-> " L"]
    /\ fmtIn.strike = Frac(24800, 1)
    /\ fmtOut.cells.strike =
          [kind |-> "fixed", neg |-> FALSE, int |-> 24, frac |-> 80, dec |-> 2,
           suffix |-> " K"]

----------------------------------------------------------------------------
(* SpecBtn: the scripts whose refresh disables the Refresh button          *)
(*                                                                         *)
(* refreshChain of public/js/dashboard.js (second script "js2", third      *)
(* script "js3") and loadChain of unnamed/part_000 ("p000").  The page is  *)
(* the record ui: the button, the table body, the health line, whether the *)
(* two selects hold options, the boot coroutine's position, whether the    *)
(* DOMContentLoaded listener of part_000 has run, the AI button and the AI *)
(* output of runAI, and the requests in flight.  body is "rows" when the   *)
(* table holds at least one row.  A request of kind "chain" is a GET of    *)
(* /optionchain: refreshChain's, or runAI's in the second script.  The     *)
(* page holds the elements the scripts name with their constants; the      *)
(* listener of part_000 finds no element "refresh" to wire.                *)

\* most requests issued in one run of a refresh page
MaxCalls == 6

BtnVariants == {"js2", "js3", "p000"}

\* a request of a refresh page in flight
BtnRequest(rid, kind, owner) == [rid |-> rid, kind |-> kind, owner |-> owner]

BtnIssue(S, kind, owner) ==
    [S EXCEPT !.reqs = @ \cup {BtnRequest(S.nextRid, kind, owner)},
              !.nextRid = @ + 1]

\* the page before the script has run
BtnInitialPage ==
    [bootPc   |-> "start",
     hasInst  |-> FALSE,
     hasExp   |-> FALSE,
     disabled |-> FALSE,
     body     |-> "initial",
     health   |-> "initial",
     dcl      |-> FALSE,
     aiDisabled |-> FALSE,
     aiOut    |-> "initial",
     reqs     |-> {},
     nextRid  |-> 1]

\* whether the listeners are registered: the second and third script of
\* public/js wire up before init() runs, part_000 at the end of init()
Wired(v, S) == IF v = "p000" THEN S.bootPc = "done" ELSE S.bootPc # "start"

\* the coroutine that was awaiting ends: init() is over, a handler just ends
EndOf(S, owner, pc) == IF owner = "init" THEN [S EXCEPT !.bootPc = pc] ELSE S

\* refreshChain() / loadChain(), up to the await.  In the second script
\* JSON.parse(selInstrument.value) throws inside the try when the select is
\* empty: catch writes the health line and finally re-enables the button.
\* The third script also empties the AI output
refreshChain(v, S, owner) ==
    IF v = "js2" /\ ~S.hasInst
    THEN EndOf([S EXCEPT !.disabled = FALSE, !.body = "empty", !.health = "error"],
               owner, "done")
    ELSE BtnIssue([S EXCEPT !.disabled = TRUE,
                            !.body = IF v = "p000" THEN "loading" ELSE "empty",
                            !.aiOut = IF v = "js3" THEN "empty" ELSE @],
                  "chain", owner)

\* refreshChain() whose settle step has no finally block
refreshSettled_noFinally(v, S, r, out) ==
    LET S1 == [S EXCEPT !.reqs = @ \ {r}]
        S2 == IF out = "ok" THEN [S1 EXCEPT !.disabled = FALSE, !.body = "rows"]
              ELSE [S1 EXCEPT !.body = "error"]
    IN  EndOf(S2, r.owner, "done")

\* refreshChain() / loadChain() after the await: the rows, "No rows." or the
\* error, then finally { btnRefresh.disabled = false }.  The second script
\* and part_000 replace the table body; the third script appends the rows
\* of the answer to what the body holds (bodyChain.appendChild(frag)), so an
\* answer without rows leaves the body as it is
refreshSettled(v, S, r, out) ==
    LET S1 == [S EXCEPT !.reqs = @ \ {r}, !.disabled = FALSE]
        S2 == CASE out = "ok" ->
                       [S1 EXCEPT !.body = "rows",
                                  !.health = IF v = "p000" THEN @ ELSE "ok"]
                [] out = "norows" ->
                       [S1 EXCEPT !.body = CASE v = "p000" -> "norows"
                                             [] v = "js3" -> @
                                             [] OTHER -> "empty",
                                  !.health = IF v = "p000" THEN @ ELSE "ok"]
                [] OTHER ->
                       [S1 EXCEPT !.body = IF v = "p000" THEN "error" ELSE @,
                                  !.health = IF v = "p000" THEN @ ELSE "error"]
    IN  EndOf(S2, r.owner, "done")

\* loadExpiries(), up to the await: the second script and part_000 empty the
\* expiry select first
btn_loadExpiries(v, S, owner) ==
    BtnIssue([S EXCEPT !.hasExp = IF v = "js3" THEN @ ELSE FALSE], "expiries", owner)

\* loadExpiries() after the await, and what its caller does next.  The
\* third script replaces the options (innerHTML) and catches a failure
\* inside loadExpiries, then goes on to refreshChain; the second script and
\* part_000 append the options of the answer to those the select holds, and a
\* failure rejects the caller.  loadInstruments().then(loadExpiries) of
\* part_000's DOMContentLoaded listener ends with loadExpiries
btn_expiriesSettled(v, S, r, out) ==
    LET S1 == [S EXCEPT !.reqs = @ \ {r}]
        S2 == [S1 EXCEPT !.hasExp = IF v = "js3" THEN out = "ok"
                                    ELSE @ \/ out = "ok"]
    IN  IF out = "fail" /\ v # "js3" THEN EndOf(S1, r.owner, "dead")
        ELSE IF r.owner = "domContentLoaded" THEN S2
        ELSE refreshChain(v, IF out = "fail" THEN [S1 EXCEPT !.health = "error"]
                             ELSE S2, r.owner)

\* loadInstruments(), up to the await: part_000 empties the select first
btn_loadInstruments(v, S, owner) ==
    BtnIssue([S EXCEPT !.hasInst = IF v = "p000" THEN FALSE ELSE @],
             "instruments", owner)

\* loadInstruments() after the await, and init() up to its next await: the
\* second and third script replace the options, part_000 appends them
btn_instrumentsSettled(v, S, r, out) ==
    LET S1 == [S EXCEPT !.reqs = @ \ {r}]
        S2 == [S1 EXCEPT !.hasInst = IF v = "p000" THEN @ \/ out = "ok"
                                     ELSE out = "ok"]
    IN  CASE v = "js2" ->
                IF out = "fail" THEN EndOf(S1, "init", "dead")
                ELSE IF out = "ok" THEN btn_loadExpiries(v, S2, "init")
                ELSE refreshChain(v, S2, "init")
          [] v = "js3" ->
                btn_loadExpiries(v, IF out = "fail" THEN [S1 EXCEPT !.health = "error"]
                                    ELSE S2, "init")
          [] OTHER ->
                IF out = "fail" THEN EndOf(S1, r.owner, "dead")
                ELSE btn_loadExpiries(v, S2, r.owner)

\* init(), up to its first await: the health ping of the second script and
\* part_000, loadInstruments() in the third script
btn_init(v, S) ==
    LET S1 == [S EXCEPT !.bootPc = "running"]
    IN  IF v = "js3" THEN btn_loadInstruments(v, S1, "init")
        ELSE BtnIssue(S1, "health", "init")

\* the health ping answered (a failure is caught): part_000 writes the health
\* line, the second script the AI badge; init goes on
btn_healthSettled(v, S, r, out) ==
    LET S1 == [S EXCEPT !.reqs = @ \ {r}]
    IN  btn_loadInstruments(v, IF v = "p000" THEN [S1 EXCEPT !.health = out] ELSE S1,
                            "init")

\* the DOMContentLoaded listener of part_000: loadInstruments() runs up to
\* its await (then(loadExpiries) follows its answer)
btn_domContentLoaded(v, S) ==
    btn_loadInstruments(v, [S EXCEPT !.dcl = TRUE], "domContentLoaded")

\* runAI(), up to its first await.  The second script and part_000 disable
\* the AI button.  The second script first fetches the chain of the selected
\* instrument; JSON.parse(selInstrument.value) throws inside the try when
\* the select is empty, catch writes the error and finally re-enables the
\* AI button.  The third script and part_000 post the prompt at once
runAI(v, S) ==
    CASE v = "js2" ->
            IF ~S.hasInst THEN [S EXCEPT !.aiDisabled = FALSE, !.aiOut = "error"]
            ELSE BtnIssue([S EXCEPT !.aiDisabled = TRUE, !.aiOut = "thinking"],
                          "chain", "runAI")
      [] v = "js3" -> BtnIssue([S EXCEPT !.aiOut = "analyzing"], "ai", "runAI")
      [] OTHER -> BtnIssue([S EXCEPT !.aiDisabled = TRUE, !.aiOut = "thinking"],
                           "ai", "runAI")

\* runAI() of the second script after its getJSON: the prompt is built from
\* the rows and posted to /ai/analyze; a failed fetch is caught
runAIChainSettled(v, S, r, out) ==
    LET S1 == [S EXCEPT !.reqs = @ \ {r}]
    IN  IF out = "ok" THEN BtnIssue(S1, "ai", "runAI")
        ELSE [S1 EXCEPT !.aiDisabled = FALSE, !.aiOut = "error"]

\* runAI() after the POST: the answer, or the error.  The second script and
\* part_000 throw on a response that is not ok and re-enable the AI button
\* in finally; the third script shows the body of any response that parses
runAISettled(v, S, r, out) ==
    LET S1 == [S EXCEPT !.reqs = @ \ {r},
                        !.aiDisabled = IF v = "js3" THEN @ ELSE FALSE]
    IN  [S1 EXCEPT !.aiOut = IF out = "ok" \/ (out = "notOk" /\ v = "js3")
                             THEN "answer" ELSE "error"]

\* the new page is committed; the run stays within MaxCalls requests
BtnCommit(T) ==
    /\ T.nextRid <= MaxCalls + 1
    /\ ui' = T
    /\ UNCHANGED <<winVars, variant, resolved, fmtVars>>

InitBtn ==
    /\ variant \in BtnVariants
    /\ ui = BtnInitialPage
    /\ resolved = <<>>
    /\ chain = <<>> /\ spotIn = NullV /\ stepIn = NullV
    /\ winIn = 0 /\ fullIn = FALSE
    /\ call = "none" /\ result = NoResult
    /\ fmtIn = NoRow /\ fmtOut = NoCells

\* the script is loaded: init() runs up to its first await
BtnBoot ==
    /\ ui.bootPc = "start"
    /\ BtnCommit(btn_init(variant, ui))

\* DOMContentLoaded fires once, after the script has run
BtnDomContentLoaded ==
    /\ variant = "p000"
    /\ ui.bootPc # "start"
    /\ ~ui.dcl
    /\ BtnCommit(btn_domContentLoaded(variant, ui))

BtnSettleHealth ==
    \E r \in ui.reqs : \E out \in {"ok", "error"} :
        /\ r.kind = "health"
        /\ BtnCommit(btn_healthSettled(variant, ui, r, out))

BtnSettleInstruments ==
    \E r \in ui.reqs : \E out \in {"ok", "empty", "fail"} :
        /\ r.kind = "instruments"
        /\ BtnCommit(btn_instrumentsSettled(variant, ui, r, out))

BtnSettleExpiries ==
    \E r \in ui.reqs : \E out \in {"ok", "empty", "fail"} :
        /\ r.kind = "expiries"
        /\ BtnCommit(btn_expiriesSettled(variant, ui, r, out))

\* the response of a refresh arrives: rows, no rows, a failed request or a
\* body that does not parse
BtnSettleChain ==
    \E r \in ui.reqs : \E out \in {"ok", "norows", "fail", "unparsable"} :
        /\ r.kind = "chain" /\ r.owner # "runAI"
        /\ BtnCommit(refreshSettled(variant, ui, r, out))

\* a click on the AI button; a disabled button fires no click event
BtnClickAI ==
    /\ Wired(variant, ui)
    /\ ~ui.aiDisabled
    /\ BtnCommit(runAI(variant, ui))

\* the chain that runAI of the second script asked for arrives, or fails
BtnSettleAIChain ==
    \E r \in ui.reqs : \E out \in {"ok", "fail"} :
        /\ r.kind = "chain" /\ r.owner = "runAI"
        /\ BtnCommit(runAIChainSettled(variant, ui, r, out))

\* the response of /ai/analyze arrives: ok, a status that is not ok, or a
\* failed request or a body that does not parse
BtnSettleAI ==
    \E r \in ui.reqs : \E out \in {"ok", "notOk", "fail"} :
        /\ r.kind = "ai"
        /\ BtnCommit(runAISettled(variant, ui, r, out))

\* a click on the Refresh button; a disabled button fires no click event
BtnClickRefresh ==
    /\ Wired(variant, ui)
    /\ ~ui.disabled
    /\ BtnCommit(refreshChain(variant, ui, "click"))

\* the full-chain checkbox changes
BtnToggleFull ==
    /\ Wired(variant, ui)
    /\ BtnCommit(refreshChain(variant, ui, "fullChange"))

\* the user picks another expiry
BtnChangeExpiry ==
    /\ Wired(variant, ui)
    /\ ui.hasExp
    /\ BtnCommit(refreshChain(variant, ui, "expiryChange"))

\* the window input changes: a listener in the third script and part_000
BtnChangeWindow ==
    /\ Wired(variant, ui)
    /\ variant \in {"js3", "p000"}
    /\ BtnCommit(refreshChain(variant, ui, "windowChange"))

\* the user picks another instrument: loadExpiries(), then the refresh
BtnChangeInstrument ==
    /\ Wired(variant, ui)
    /\ ui.hasInst
    /\ BtnCommit(btn_loadExpiries(variant, ui, "instChange"))

NextBtn ==
    \/ BtnBoot
    \/ BtnDomContentLoaded
    \/ BtnSettleHealth
    \/ BtnSettleInstruments
    \/ BtnSettleExpiries
    \/ BtnSettleChain
    \/ BtnClickRefresh
    \/ BtnToggleFull
    \/ BtnChangeExpiry
    \/ BtnChangeWindow
    \/ BtnChangeInstrument
    \/ BtnClickAI
    \/ BtnSettleAIChain
    \/ BtnSettleAI

SpecBtn == InitBtn /\ [][NextBtn]_vars

\* every response arrives: a request in flight is eventually answered
SpecBtnLive == SpecBtn /\ WF_vars(BtnSettleChain)

\* the refreshes waiting for their response (runAI's fetch of the chain is
\* no refresh: it touches neither the table nor the Refresh button)
RefreshPending == {r \in ui.reqs : r.kind = "chain" /\ r.owner # "runAI"}

\* C24: the Refresh button is disabled in every state in which a refresh is
\* waiting for its response.
C24_DisabledWhilePending ==
    RefreshPending # {} => ui.disabled

\* C25: a step that handles the response of a refresh leaves the button
\* enabled, whatever the response; the button is never disabled with no
\* refresh pending; and a disabled button is eventually enabled again.
C25_ButtonReenabled ==
    /\ [][(\E r \in RefreshPending : r \notin ui'.reqs) => ~ui'.disabled]_vars
    /\ [](ui.disabled => RefreshPending # {})
    /\ (ui.disabled ~> ~ui.disabled)

\* C25 witness: a refresh of part_000 has failed, its error row is shown,
\* nothing is pending and the button is enabled.
C25_Witness ==
    /\ variant = "p000"
    /\ ui.body = "error"
    /\ ui.reqs = {}
    /\ ~ui.disabled

====
